---- MODULE Spec2Model ----
(***************************************************************************)
(* bit-scout: the in-memory SimpleIndex, the query language and the        *)
(* write-behind PersistedSimpleIndex (bounded job queue, one background    *)
(* worker, BoltDB store, startup rehydration).                             *)
(*                                                                         *)
(* Strings are sequences of one-character strings, so that parsing,        *)
(* trimming, case folding and serialisation are computed, not assumed.     *)
(***************************************************************************)
EXTENDS Integers, Sequences, FiniteSets, TLC

\* ------------------------------------------------------------------ bounds

\* Stand-in for the channel capacity 1000 of opChan (persistedsimple.go:38).
QueueCap == 2
\* Number of mutating calls issued over a run, all callers and instances together.
MaxCalls == 3
\* Number of storage failures the environment injects over a run.
MaxFaults == 1
\* Number of times the store is closed and opened again with load.
MaxReopens == 1

Threads == {1, 2}

\* ----------------------------------------------------------------- strings

\* [0-9A-Za-z_], the class \w of the condition pattern.
WordChars ==
    {"a", "b", "c", "d", "e", "g", "i", "m", "n", "o", "s", "t", "x",
     "A", "G", "O", "0", "1", "2", "_"}
\* The class \s of the condition pattern.
RegexSpace == {" ", "\t", "\n"}
\* Whitespace for strings.TrimSpace: \s and the Unicode spaces (NBSP).
UnicodeSpace == RegexSpace \cup {"nbsp"}
\* An invalid UTF-8 byte and the replacement rune encoding/json writes for it.
BadByte == "xFF"
ReplacementChar == "uFFFD"

ToLowerChar(c) ==
    CASE c = "A" -> "a"
      [] c = "G" -> "g"
      [] c = "O" -> "o"
      [] OTHER -> c

ToLower(s) == [i \in 1..Len(s) |-> ToLowerChar(s[i])]

EqualFold(s, t) == ToLower(s) = ToLower(t)

HasPrefix(s, p) == Len(p) <= Len(s) /\ SubSeq(s, 1, Len(p)) = p

HasSuffix(s, p) == Len(p) <= Len(s) /\ SubSeq(s, Len(s) - Len(p) + 1, Len(s)) = p

Contains(s, sub) ==
    \E i \in 1..(Len(s) - Len(sub) + 1) : SubSeq(s, i, i + Len(sub) - 1) = sub

\* First index at which sub occurs in s from position from on, 0 when none.
IndexFrom(s, sub, from) ==
    LET hits == {i \in from..(Len(s) - Len(sub) + 1) :
                    SubSeq(s, i, i + Len(sub) - 1) = sub}
    IN  IF hits = {} THEN 0 ELSE CHOOSE i \in hits : \A j \in hits : i <= j

RECURSIVE SplitFrom(_, _, _)
SplitFrom(s, sep, from) ==
    LET i == IndexFrom(s, sep, from)
    IN  IF i = 0 THEN <<SubSeq(s, from, Len(s))>>
        ELSE <<SubSeq(s, from, i - 1)>> \o SplitFrom(s, sep, i + Len(sep))

\* strings.Split for a non-empty separator.
Split(s, sep) == SplitFrom(s, sep, 1)

RECURSIVE TrimLeft(_)
TrimLeft(s) ==
    IF s # <<>> /\ Head(s) \in UnicodeSpace THEN TrimLeft(Tail(s)) ELSE s

RECURSIVE TrimRight(_)
TrimRight(s) ==
    IF s # <<>> /\ s[Len(s)] \in UnicodeSpace
    THEN TrimRight(SubSeq(s, 1, Len(s) - 1)) ELSE s

TrimSpace(s) == TrimRight(TrimLeft(s))

\* --------------------------------------------------------------- documents

EmptyMap == [k \in {} |-> <<>>]

MapPut(m, k, v) == [x \in DOMAIN m \cup {k} |-> IF x = k THEN v ELSE m[x]]

MapDel(m, k) == [x \in DOMAIN m \ {k} |-> m[x]]

Document(id, text, source, vector, meta) ==
    [ID |-> id, Text |-> text, Source |-> source, Vector |-> vector, Meta |-> meta]

KeyExt == <<"e", "x", "t">>
KeyT == <<"t">>

\* Document 1, as first written.
D1 ==
    Document(<<"1">>, <<"G", "o">>, <<"a">>, <<"0.1">>,
             MapPut(EmptyMap, KeyExt, <<"g", "o">>))
\* Document 1 rewritten; its ext attribute is the empty string.
D1b ==
    Document(<<"1">>, <<"b">>, <<"a">>, <<>>,
             MapPut(EmptyMap, KeyExt, <<>>))
\* Document 2: a byte that is not UTF-8 in Text, an attribute value holding " and ".
D2 ==
    Document(<<"2">>, <<BadByte>>, <<"b">>, <<>>,
             MapPut(MapPut(EmptyMap, KeyExt, <<"m", "d">>),
                    KeyT, <<"a", " ", "a", "n", "d", " ", "b">>))
\* A document whose ID is the empty string.
D0 ==
    Document(<<>>, <<"e">>, <<>>, <<>>, EmptyMap)

\* Document 3: the text of document 1 under an ID of its own.
D3 ==
    Document(<<"0">>, <<"G", "o">>, <<"g", "o">>, <<>>,
             MapPut(EmptyMap, KeyExt, <<"g", "o">>))

\* Document 2 rewritten.
D2b ==
    Document(<<"2">>, <<"b">>, <<"b">>, <<>>,
             MapPut(EmptyMap, KeyExt, <<"m", "d">>))

DocPool == {D1, D1b, D2, D0, D3, D2b}

\* ---------------------------------------------------------- query language

OpEquals == <<"=">>
OpNotEquals == <<"!", "=">>
OpLess == <<"<">>
OpLessEq == <<"<", "=">>
OpGreater == <<">">>
OpGreaterEq == <<">", "=">>
OpContains == <<"c", "o", "n", "t", "a", "i", "n", "s">>

\* The alternation (=|!=|<=|>=|<|>|contains), in the order the pattern tries it.
OperatorAlternation ==
    <<OpEquals, OpNotEquals, OpLessEq, OpGreaterEq, OpLess, OpGreater, OpContains>>

QueryCondition(dim, op, val) == [Dimension |-> dim, Operator |-> op, Value |-> val]

NoMatch == [ok |-> FALSE, dim |-> <<>>, op |-> <<>>, val |-> <<>>]

HasAt(s, pos, w) ==
    pos + Len(w) - 1 <= Len(s) /\ SubSeq(s, pos, pos + Len(w) - 1) = w

\* Length of the longest run of characters of class cls in s from position pos.
RECURSIVE RunLen(_, _, _)
RunLen(s, pos, cls) ==
    IF pos <= Len(s) /\ s[pos] \in cls THEN 1 + RunLen(s, pos + 1, cls) ELSE 0

\* \s*(.+)$ from position p2: greedy \s*, giving characters back to (.+),
\* which matches any character but the newline.
RECURSIVE MatchValue(_, _, _)
MatchValue(s, p2, sp2) ==
    IF sp2 < 0 THEN NoMatch
    ELSE LET v == SubSeq(s, p2 + sp2, Len(s))
         IN  IF v # <<>> /\ \A i \in 1..Len(v) : v[i] # "\n"
             THEN [ok |-> TRUE, dim |-> <<>>, op |-> <<>>, val |-> v]
             ELSE MatchValue(s, p2, sp2 - 1)

RECURSIVE MatchOperator(_, _, _)
MatchOperator(s, pos, k) ==
    IF k > Len(OperatorAlternation) THEN NoMatch
    ELSE LET op == OperatorAlternation[k]
             p2 == pos + Len(op)
             r  == MatchValue(s, p2, RunLen(s, p2, RegexSpace))
         IN  IF HasAt(s, pos, op) /\ r.ok
             THEN [r EXCEPT !.op = op]
             ELSE MatchOperator(s, pos, k + 1)

RECURSIVE MatchSpaces(_, _, _)
MatchSpaces(s, dimLen, sp1) ==
    IF sp1 < 0 THEN NoMatch
    ELSE LET r == MatchOperator(s, dimLen + sp1 + 1, 1)
         IN  IF r.ok THEN r ELSE MatchSpaces(s, dimLen, sp1 - 1)

RECURSIVE MatchDimension(_, _)
MatchDimension(s, dimLen) ==
    IF dimLen < 1 THEN NoMatch
    ELSE LET r == MatchSpaces(s, dimLen, RunLen(s, dimLen + 1, RegexSpace))
         IN  IF r.ok THEN [r EXCEPT !.dim = SubSeq(s, 1, dimLen)]
             ELSE MatchDimension(s, dimLen - 1)

\* FindStringSubmatch of ^(\w+)\s*(=|!=|<=|>=|<|>|contains)\s*(.+)$ on s,
\* leftmost-first: greedy \w+, then shorter ones.
FindStringSubmatch(s) == MatchDimension(s, RunLen(s, 1, WordChars))

IsQuoted(value, q) == HasPrefix(value, <<q>>) /\ HasSuffix(value, <<q>>)

\* parseCondition: status "ok" with the condition, "error" (invalid format),
\* or "panic": value[1 : len(value)-1] on a value that is one quote character.
parseCondition(conditionStr) ==
    LET m == FindStringSubmatch(conditionStr)
        value == TrimSpace(m.val)
    IN  IF ~m.ok THEN [status |-> "error", cond |-> QueryCondition(<<>>, <<>>, <<>>)]
        ELSE IF IsQuoted(value, "\"") \/ IsQuoted(value, "'")
        THEN IF Len(value) < 2
             THEN [status |-> "panic", cond |-> QueryCondition(<<>>, <<>>, <<>>)]
             ELSE [status |-> "ok",
                   cond |-> QueryCondition(m.dim, m.op, SubSeq(value, 2, Len(value) - 1))]
        ELSE [status |-> "ok", cond |-> QueryCondition(m.dim, m.op, value)]

\* A loop that puts each new condition in front of the earlier ones.
RECURSIVE ParsePartsNewestFirst(_, _)
ParsePartsNewestFirst(parts, conds) ==
    IF parts = <<>> THEN [status |-> "ok", Conditions |-> conds]
    ELSE LET part == TrimSpace(Head(parts))
         IN  IF part = <<>> THEN ParsePartsNewestFirst(Tail(parts), conds)
             ELSE LET c == parseCondition(part)
                  IN  IF c.status # "ok"
                      THEN [status |-> c.status, Conditions |-> <<>>]
                      ELSE ParsePartsNewestFirst(Tail(parts), <<c.cond>> \o conds)

RECURSIVE ParseParts(_, _)
ParseParts(parts, conds) ==
    IF parts = <<>> THEN [status |-> "ok", Conditions |-> conds]
    ELSE LET part == TrimSpace(Head(parts))
         IN  IF part = <<>> THEN ParseParts(Tail(parts), conds)
             ELSE LET c == parseCondition(part)
                  IN  IF c.status # "ok"
                      THEN [status |-> c.status, Conditions |-> <<>>]
                      ELSE ParseParts(Tail(parts), Append(conds, c.cond))

\* ParseQuery: the conditions of the segments between " and " separators.
ParseQuery(queryStr) ==
    ParseParts(Split(queryStr, <<" ", "a", "n", "d", " ">>), <<>>)

\* Byte values, for the byte-wise comparison of Go strings.
CharCode(c) ==
    CASE c = "\t" -> 9 [] c = "\n" -> 10 [] c = " " -> 32 [] c = "!" -> 33
      [] c = "\"" -> 34 [] c = "'" -> 39 [] c = "0" -> 48 [] c = "1" -> 49
      [] c = "2" -> 50 [] c = "<" -> 60 [] c = "=" -> 61 [] c = ">" -> 62
      [] c = "A" -> 65 [] c = "G" -> 71 [] c = "O" -> 79 [] c = "_" -> 95
      [] c = "a" -> 97 [] c = "b" -> 98 [] c = "c" -> 99 [] c = "d" -> 100
      [] c = "e" -> 101 [] c = "g" -> 103 [] c = "i" -> 105 [] c = "m" -> 109
      [] c = "n" -> 110 [] c = "o" -> 111 [] c = "s" -> 115 [] c = "t" -> 116
      [] c = "x" -> 120 [] c = "nbsp" -> 194 [] OTHER -> 255

RECURSIVE StrLess(_, _)
StrLess(s, t) ==
    IF t = <<>> THEN FALSE
    ELSE IF s = <<>> THEN TRUE
    ELSE IF CharCode(Head(s)) # CharCode(Head(t))
    THEN CharCode(Head(s)) < CharCode(Head(t))
    ELSE StrLess(Tail(s), Tail(t))

DigitValue(c) == CASE c = "0" -> 0 [] c = "1" -> 1 [] c = "2" -> 2 [] OTHER -> -1

RECURSIVE DecimalValue(_, _)
DecimalValue(s, acc) ==
    IF s = <<>> THEN acc ELSE DecimalValue(Tail(s), 10 * acc + DigitValue(Head(s)))

\* strconv.ParseFloat on the decimal numerals the alphabet can spell.
ParseFloat(s) ==
    IF s # <<>> /\ \A i \in 1..Len(s) : DigitValue(s[i]) >= 0
    THEN [ok |-> TRUE, num |-> DecimalValue(s, 0)]
    ELSE [ok |-> FALSE, num |-> 0]

Verdict(b) == [match |-> b, err |-> FALSE]
EvalError == [match |-> FALSE, err |-> TRUE]

\* An ordering comparison that never reads the values as numbers.
evaluateNumericAsStrings(c, docValue) ==
    CASE c.Operator = OpLess -> Verdict(StrLess(docValue, c.Value))
      [] c.Operator = OpLessEq -> Verdict(~StrLess(c.Value, docValue))
      [] c.Operator = OpGreater -> Verdict(StrLess(c.Value, docValue))
      [] c.Operator = OpGreaterEq -> Verdict(~StrLess(docValue, c.Value))
      [] OTHER -> EvalError

evaluateNumeric(c, docValue) ==
    LET d == ParseFloat(docValue)
        q == ParseFloat(c.Value)
    IN  IF ~d.ok
        THEN CASE c.Operator = OpLess -> Verdict(StrLess(docValue, c.Value))
               [] c.Operator = OpLessEq -> Verdict(~StrLess(c.Value, docValue))
               [] c.Operator = OpGreater -> Verdict(StrLess(c.Value, docValue))
               [] c.Operator = OpGreaterEq -> Verdict(~StrLess(docValue, c.Value))
               [] OTHER -> EvalError
        ELSE IF ~q.ok THEN EvalError
        ELSE CASE c.Operator = OpLess -> Verdict(d.num < q.num)
               [] c.Operator = OpLessEq -> Verdict(d.num <= q.num)
               [] c.Operator = OpGreater -> Verdict(d.num > q.num)
               [] c.Operator = OpGreaterEq -> Verdict(d.num >= q.num)
               [] OTHER -> EvalError

\* doc.Meta[c.Dimension], else the synonyms filename, path, text.
ResolveField(c, doc) ==
    IF c.Dimension \in DOMAIN doc.Meta
    THEN [found |-> TRUE, value |-> doc.Meta[c.Dimension]]
    ELSE CASE c.Dimension = <<"f", "i", "l", "e", "n", "a", "m", "e">> ->
                [found |-> TRUE, value |-> <<>>]
           [] c.Dimension = <<"p", "a", "t", "h">> ->
                [found |-> TRUE, value |-> doc.Source]
           [] c.Dimension = <<"t", "e", "x", "t">> ->
                [found |-> TRUE, value |-> doc.Text]
           [] OTHER -> [found |-> FALSE, value |-> <<>>]

\* An evaluation that takes a missing or empty field for unequal to any value.
EvaluateConditionMissingDiffers(c, doc) ==
    LET f == ResolveField(c, doc)
    IN  IF ~f.found \/ f.value = <<>> THEN Verdict(c.Operator = OpNotEquals)
        ELSE CASE c.Operator = OpEquals -> Verdict(EqualFold(f.value, c.Value))
               [] c.Operator = OpNotEquals -> Verdict(~EqualFold(f.value, c.Value))
               [] c.Operator = OpContains ->
                    Verdict(Contains(ToLower(f.value), ToLower(c.Value)))
               [] c.Operator \in {OpLess, OpLessEq, OpGreater, OpGreaterEq} ->
                    evaluateNumeric(c, f.value)
               [] OTHER -> EvalError

\* QueryCondition.Evaluate
EvaluateCondition(c, doc) ==
    LET f == ResolveField(c, doc)
    IN  IF ~f.found \/ f.value = <<>> THEN Verdict(FALSE)
        ELSE CASE c.Operator = OpEquals -> Verdict(EqualFold(f.value, c.Value))
               [] c.Operator = OpNotEquals -> Verdict(~EqualFold(f.value, c.Value))
               [] c.Operator = OpContains ->
                    Verdict(Contains(ToLower(f.value), ToLower(c.Value)))
               [] c.Operator \in {OpLess, OpLessEq, OpGreater, OpGreaterEq} ->
                    evaluateNumeric(c, f.value)
               [] OTHER -> EvalError

\* An evaluation that goes through every condition before it answers.
EvaluateQueryToTheEnd(conds, doc) ==
    IF \E i \in 1..Len(conds) : EvaluateCondition(conds[i], doc).err THEN EvalError
    ELSE Verdict(\A i \in 1..Len(conds) : EvaluateCondition(conds[i], doc).match)

\* Query.Evaluate: AND of the conditions, stopping at the first false or error.
RECURSIVE EvaluateQuery(_, _)
EvaluateQuery(conds, doc) ==
    IF conds = <<>> THEN Verdict(TRUE)
    ELSE LET r == EvaluateCondition(Head(conds), doc)
         IN  IF r.err THEN EvalError
             ELSE IF ~r.match THEN Verdict(FALSE)
             ELSE EvaluateQuery(Tail(conds), doc)


\* ------------------------------------------------------------- SimpleIndex

\* An index value: the documents map and the configuration map.
NewSimpleIndex == [documents |-> EmptyMap, config |-> EmptyMap]

SimpleConfigure(idx, cfg) == [idx EXCEPT !.config = cfg]

\* ShowConfig: a copy of the configuration, entry by entry.
SimpleShowConfig(idx) == [k \in DOMAIN idx.config |-> idx.config[k]]

\* An add that keeps the document already stored under the ID.
SimpleAddDocumentKeepFirst(idx, doc) ==
    IF doc.ID \in DOMAIN idx.documents THEN idx
    ELSE [idx EXCEPT !.documents = MapPut(idx.documents, doc.ID, doc)]

SimpleAddDocument(idx, doc) ==
    [idx EXCEPT !.documents = MapPut(idx.documents, doc.ID, doc)]

RECURSIVE SimpleAddDocuments(_, _)
SimpleAddDocuments(idx, ds) ==
    IF ds = <<>> THEN idx
    ELSE SimpleAddDocuments(SimpleAddDocument(idx, Head(ds)), Tail(ds))

Done(idx) == [index |-> idx, err |-> "nil"]
NotFound(idx) == [index |-> idx, err |-> "NotFound"]

\* A delete that takes an absent ID for done.
SimpleDeleteDocumentSilent(idx, id) ==
    [index |-> [idx EXCEPT !.documents = MapDel(idx.documents, id)], err |-> "nil"]

SimpleDeleteDocument(idx, id) ==
    IF id \notin DOMAIN idx.documents THEN NotFound(idx)
    ELSE Done([idx EXCEPT !.documents = MapDel(idx.documents, id)])

\* A batch delete that skips the IDs it does not find.
RECURSIVE SimpleDeleteDocumentsSkipping(_, _)
SimpleDeleteDocumentsSkipping(idx, ids) ==
    IF ids = <<>> THEN [index |-> idx, err |-> "nil"]
    ELSE SimpleDeleteDocumentsSkipping(
             [idx EXCEPT !.documents = MapDel(idx.documents, Head(ids))], Tail(ids))

\* The loop returns at the first failing id; earlier deletions stay.
RECURSIVE SimpleDeleteDocuments(_, _)
SimpleDeleteDocuments(idx, ids) ==
    IF ids = <<>> THEN Done(idx)
    ELSE LET r == SimpleDeleteDocument(idx, Head(ids))
         IN  IF r.err # "nil" THEN r ELSE SimpleDeleteDocuments(r.index, Tail(ids))

\* An update that stores the document under the ID it carries.
SimpleUpdateDocumentByPayloadID(idx, id, doc) ==
    IF id \notin DOMAIN idx.documents THEN NotFound(idx)
    ELSE Done([idx EXCEPT !.documents = MapPut(idx.documents, doc.ID, doc)])

SimpleUpdateDocument(idx, id, doc) ==
    IF id \notin DOMAIN idx.documents THEN NotFound(idx)
    ELSE Done([idx EXCEPT !.documents = MapPut(idx.documents, id, doc)])

RECURSIVE SimpleUpdateDocuments(_, _)
SimpleUpdateDocuments(idx, ds) ==
    IF ds = <<>> THEN Done(idx)
    ELSE LET r == SimpleUpdateDocument(idx, Head(ds).ID, Head(ds))
         IN  IF r.err # "nil" THEN r ELSE SimpleUpdateDocuments(r.index, Tail(ds))

SimpleCount(idx) == Cardinality(DOMAIN idx.documents)

\* A search that gives up on the first evaluation error and lists nothing.
searchAdvancedAborting(idx, conds) ==
    [k \in DOMAIN idx.documents |->
        LET r == EvaluateQuery(conds, idx.documents[k])
        IN  IF \E e \in DOMAIN idx.documents :
                   EvaluateQuery(conds, idx.documents[e]).err
            THEN 0
            ELSE IF r.match THEN 1 ELSE 0]

\* searchAdvanced: how many times each stored key's document is appended
\* (the order of a map iteration is not specified).
searchAdvanced(idx, conds) ==
    [k \in DOMAIN idx.documents |->
        LET r == EvaluateQuery(conds, idx.documents[k])
        IN  IF ~r.err /\ r.match THEN 1 ELSE 0]

\* searchSimple: Text (then continue), Meta keys and values (then break),
\* and Source, which is tested also after a Meta hit.
searchSimple(idx, query) ==
    LET q == ToLower(query)
    IN  [k \in DOMAIN idx.documents |->
            LET doc == idx.documents[k]
                inMeta == \E mk \in DOMAIN doc.Meta :
                              \/ Contains(ToLower(mk), q)
                              \/ Contains(ToLower(doc.Meta[mk]), q)
            IN  IF Contains(ToLower(doc.Text), q) THEN 1
                ELSE (IF inMeta THEN 1 ELSE 0)
                     + (IF Contains(ToLower(doc.Source), q) THEN 1 ELSE 0)]

\* A Search that evaluates the conditions of a query also when it has none.
SimpleSearchAlwaysAdvanced(idx, query) ==
    IF query = <<>> THEN [status |-> "ok", hits |-> EmptyMap]
    ELSE LET p == ParseQuery(query)
         IN  IF p.status = "panic" THEN [status |-> "panic", hits |-> EmptyMap]
             ELSE IF p.status = "ok"
             THEN [status |-> "ok", hits |-> searchAdvanced(idx, p.Conditions)]
             ELSE [status |-> "ok", hits |-> searchSimple(idx, query)]

\* SimpleIndex.Search: the result as appended-count per stored key.
SimpleSearch(idx, query) ==
    IF query = <<>> THEN [status |-> "ok", hits |-> EmptyMap]
    ELSE LET p == ParseQuery(query)
         IN  IF p.status = "panic" THEN [status |-> "panic", hits |-> EmptyMap]
             ELSE IF p.status = "ok" /\ Len(p.Conditions) > 0
             THEN [status |-> "ok", hits |-> searchAdvanced(idx, p.Conditions)]
             ELSE [status |-> "ok", hits |-> searchSimple(idx, query)]


\* ------------------------------------------------- serialisation and store

\* encoding/json writes a string as valid UTF-8: a byte that is not becomes U+FFFD.
CoerceUTF8(s) ==
    [i \in 1..Len(s) |-> IF s[i] = BadByte THEN ReplacementChar ELSE s[i]]

CoerceMeta(meta) ==
    [k2 \in {CoerceUTF8(k) : k \in DOMAIN meta} |->
        CoerceUTF8(meta[CHOOSE k \in DOMAIN meta : CoerceUTF8(k) = k2])]

\* json.Marshal(doc): an error for a NaN or infinite Vector entry.
MarshalDocument(doc) ==
    IF \E i \in 1..Len(doc.Vector) : doc.Vector[i] \in {"NaN", "+Inf", "-Inf"}
    THEN [ok |-> FALSE, data |-> <<>>]
    ELSE [ok |-> TRUE,
          data |-> Document(CoerceUTF8(doc.ID), CoerceUTF8(doc.Text),
                            CoerceUTF8(doc.Source), doc.Vector, CoerceMeta(doc.Meta))]

\* json.Unmarshal of a value MarshalDocument wrote.
UnmarshalDocument(data) == [ok |-> TRUE, doc |-> data]

\* A configuration value, as Go holds it in an interface{}.
ConfigValue(type, val) == [type |-> type, val |-> val]

\* The configuration main() sets: max_results is an int.
CfgA == MapPut(EmptyMap, "max_results", ConfigValue("int", 10))

MarshalConfig(cfg) == [ok |-> TRUE, data |-> cfg]

\* json.Unmarshal into map[string]interface{}: every number comes back a float64.
UnmarshalConfig(data) ==
    [k \in DOMAIN data |->
        IF data[k].type = "int" THEN ConfigValue("float64", data[k].val) ELSE data[k]]

\* The store file: the "documents" bucket and the "config" bucket.
EmptyStore == [documents |-> EmptyMap, config |-> EmptyMap]

ConfigKey == "index_config"

\* bucket.Put: bbolt refuses an empty key.
BucketPut(bucket, key, value) ==
    IF key = <<>> THEN [ok |-> FALSE, bucket |-> bucket]
    ELSE [ok |-> TRUE, bucket |-> MapPut(bucket, key, value)]

\* bucket.Delete: no error for a key that is absent.
BucketDelete(bucket, key) == [ok |-> TRUE, bucket |-> MapDel(bucket, key)]

PutDocument(bucket, key, doc) ==
    LET m == MarshalDocument(doc)
    IN  IF ~m.ok THEN [ok |-> FALSE, bucket |-> bucket]
        ELSE BucketPut(bucket, key, m.data)

RECURSIVE PutDocuments(_, _)
PutDocuments(bucket, ds) ==
    IF ds = <<>> THEN [ok |-> TRUE, bucket |-> bucket]
    ELSE LET r == PutDocument(bucket, Head(ds).ID, Head(ds))
         IN  IF ~r.ok THEN r ELSE PutDocuments(r.bucket, Tail(ds))

RECURSIVE DeleteKeys(_, _)
DeleteKeys(bucket, ids) ==
    IF ids = <<>> THEN [ok |-> TRUE, bucket |-> bucket]
    ELSE LET r == BucketDelete(bucket, Head(ids))
         IN  IF ~r.ok THEN r ELSE DeleteKeys(r.bucket, Tail(ids))

InDocuments(st, r) == [ok |-> r.ok, store |-> [st EXCEPT !.documents = r.bucket]]

asyncAddDocument(st, op) == InDocuments(st, PutDocument(st.documents, op.docs[1].ID, op.docs[1]))
asyncAddDocuments(st, op) == InDocuments(st, PutDocuments(st.documents, op.docs))
asyncUpdateDocument(st, op) == InDocuments(st, PutDocument(st.documents, op.id, op.docs[1]))
asyncDeleteDocument(st, op) == InDocuments(st, BucketDelete(st.documents, op.id))
asyncDeleteDocuments(st, op) == InDocuments(st, DeleteKeys(st.documents, op.ids))
asyncUpdateDocuments(st, op) == InDocuments(st, PutDocuments(st.documents, op.docs))
asyncConfigure(st, op) ==
    LET m == MarshalConfig(op.cfg)
    IN  IF ~m.ok THEN [ok |-> FALSE, store |-> st]
        ELSE [ok |-> TRUE, store |-> [st EXCEPT !.config = MapPut(st.config, ConfigKey, m.data)]]

\* The function a job runs inside db.Update, by opType.
RunTransaction(st, op) ==
    CASE op.kind = "add_document" -> asyncAddDocument(st, op)
      [] op.kind = "add_documents" -> asyncAddDocuments(st, op)
      [] op.kind = "update_document" -> asyncUpdateDocument(st, op)
      [] op.kind = "delete_document" -> asyncDeleteDocument(st, op)
      [] op.kind = "delete_documents" -> asyncDeleteDocuments(st, op)
      [] op.kind = "update_documents" -> asyncUpdateDocuments(st, op)
      [] op.kind = "configure" -> asyncConfigure(st, op)
      [] OTHER -> [ok |-> FALSE, store |-> st]

\* An update whose writes stay when the function returns an error.
dbUpdateNoRollback(st, op, commitFails) ==
    LET r == RunTransaction(st, op)
    IN  [ok |-> r.ok /\ ~commitFails, store |-> r.store]

\* db.Update: the function's writes commit together, or none does (an error
\* from the function, or a failure of the commit itself).
dbUpdate(st, op, commitFails) ==
    LET r == RunTransaction(st, op)
    IN  IF r.ok /\ ~commitFails THEN [ok |-> TRUE, store |-> r.store]
        ELSE [ok |-> FALSE, store |-> st]

\* ------------------------------------------------------ startup rehydration

LoadConfigFromDatabase(idx, st, viewFails) ==
    IF viewFails THEN [index |-> idx, err |-> "storage"]
    ELSE IF ConfigKey \notin DOMAIN st.config
    THEN [index |-> idx, err |-> "no configuration found in database"]
    ELSE [index |-> SimpleConfigure(idx, UnmarshalConfig(st.config[ConfigKey])),
          err |-> "nil"]

\* bucket.ForEach visits the keys in byte order.
RECURSIVE ForEachDocument(_, _)
ForEachDocument(bucket, keys) ==
    IF keys = {} THEN <<>>
    ELSE LET k == CHOOSE x \in keys : \A y \in keys \ {x} : StrLess(x, y)
         IN  <<UnmarshalDocument(bucket[k]).doc>> \o ForEachDocument(bucket, keys \ {k})

\* LoadDocumentsFromDatabase starts by replacing p.index with NewSimpleIndex().
LoadDocumentsFromDatabase(idx, st, viewFails) ==
    IF viewFails THEN [index |-> NewSimpleIndex, err |-> "storage"]
    ELSE [index |-> SimpleAddDocuments(NewSimpleIndex,
                        ForEachDocument(st.documents, DOMAIN st.documents)),
          err |-> "nil"]

\* LoadAllFromDatabase: the configuration first, then the documents.
LoadAllFromDatabase(idx, st, fault) ==
    LET c == LoadConfigFromDatabase(idx, st, fault = "config")
        d == LoadDocumentsFromDatabase(c.index, st, fault = "documents")
    IN  [index |-> d.index, cfgErr |-> c.err,
         err |-> IF d.err # "nil" THEN "failed to load documents from database" ELSE "nil"]

IsDatabaseEmpty(st) == DOMAIN st.documents = {}

\* What the documents bucket holds, as an in-memory documents map.
StoredDocuments(st) ==
    SimpleAddDocuments(NewSimpleIndex,
                       ForEachDocument(st.documents, DOMAIN st.documents)).documents

\* The constructor with a failed load made fatal instead of logged.
NewPersistedFatalLoad(st, fault) ==
    LET r == LoadAllFromDatabase(NewSimpleIndex, st, fault)
    IN  IF IsDatabaseEmpty(st)
        THEN [index |-> NewSimpleIndex, err |-> "nil", loadErr |-> "nil",
              cfgErr |-> "nil", empty |-> TRUE]
        ELSE [index |-> r.index, err |-> r.err, loadErr |-> r.err,
              cfgErr |-> r.cfgErr, empty |-> FALSE]

\* NewPersistedSimpleIndexWithDatabaseAndLoad: the index it returns, with its
\* error and what LoadAllFromDatabase reported (which it only logs).
NewPersistedSimpleIndexWithDatabaseAndLoad(st, fault) ==
    IF IsDatabaseEmpty(st)
    THEN [index |-> NewSimpleIndex, err |-> "nil", loadErr |-> "nil",
          cfgErr |-> "nil", empty |-> TRUE]
    ELSE LET r == LoadAllFromDatabase(NewSimpleIndex, st, fault)
         IN  [index |-> r.index, err |-> "nil", loadErr |-> r.err,
              cfgErr |-> r.cfgErr, empty |-> FALSE]


\* ---------------------------------------------------- PersistedSimpleIndex

VARIABLES
    index,      \* p.index: the wrapped SimpleIndex (documents, config)
    store,      \* the BoltDB file at dbPath
    dbOpen,     \* p.db # nil
    opChan,     \* p.opChan: the buffered channel of dbOperation
    done,       \* p.done has been closed
    worker,     \* the goroutine of startAsyncWorker: where it is, the op it holds
    pc,         \* each caller: where it is in its current call
    call,       \* each caller: its current (or last) call
    ret,        \* each caller: what its last call returned
    panicked,   \* the process died of a run-time panic
    opened,     \* what the constructor of the current instance returned
    ncalls,     \* mutating calls issued so far; a call's seq is its rank
    faults,     \* storage failures injected so far
    reopens,    \* instances opened on the store after the first
    enqLog,     \* seq of every op the channel accepted, in order (this instance)
    durLog,     \* every op the worker ran a transaction for, in order, and how it ended
    workload    \* the callers of this run and the commands they may issue

vars ==
    <<index, store, dbOpen, opChan, done, worker, pc, call, ret, panicked,
      opened, ncalls, faults, reopens, enqLog, durLog, workload>>

\* dbOperation{opType, data}, with the rank of the call that made it.
Operation(kind, id, ids, ds, cfg) ==
    [kind |-> kind, id |-> id, ids |-> ids, docs |-> ds, cfg |-> cfg, seq |-> 0]

NoOperation == Operation("none", <<>>, <<>>, <<>>, EmptyMap)

\* A full queue reported to the caller as an error.
ReturnedQueueFull(val, partial, dropped) ==
    [val |-> IF dropped THEN "queue full" ELSE val, partial |-> partial, dropped |-> dropped]

Returned(val, partial, dropped) == [val |-> val, partial |-> partial, dropped |-> dropped]

NothingReturned == Returned("none", FALSE, FALSE)

ConfigureOp(cfg) == Operation("configure", <<>>, <<>>, <<>>, cfg)
AddDocumentOp(doc) == Operation("add_document", <<>>, <<>>, <<doc>>, EmptyMap)
AddDocumentsOp(ds) == Operation("add_documents", <<>>, <<>>, ds, EmptyMap)
DeleteDocumentOp(id) == Operation("delete_document", id, <<>>, <<>>, EmptyMap)
DeleteDocumentsOp(ids) == Operation("delete_documents", <<>>, ids, <<>>, EmptyMap)
UpdateDocumentOp(id, doc) == Operation("update_document", id, <<>>, <<doc>>, EmptyMap)
UpdateDocumentsOp(ds) == Operation("update_documents", <<>>, <<>>, ds, EmptyMap)

\* The arguments callers pass.
AddDocumentArgs == {D1, D1b, D2}
AddDocumentsArgs == {<<D1, D2>>, <<D2, D0>>, <<D1, D1b>>}
DeleteDocumentArgs == {<<"1">>, <<"2">>}
DeleteDocumentsArgs == {<< <<"1">>, <<"2">> >>}
UpdateDocumentArgs == {[id |-> <<"1">>, doc |-> D1b], [id |-> <<"1">>, doc |-> D2]}
UpdateDocumentsArgs == {<<D1b, D2>>}
ConfigureArgs == {CfgA}

\* Two callers racing on document 1 with the single-document commands.
SingleDocumentWorkload ==
    [callers |-> {1, 2},
     calls |-> {AddDocumentOp(D1), UpdateDocumentOp(<<"1">>, D1b)}]
\* One caller issuing the batch commands.
BatchWorkload ==
    [callers |-> {1},
     calls |-> {AddDocumentOp(D1), AddDocumentsOp(<<D1, D2>>),
                DeleteDocumentsOp(<< <<"1">>, <<"2">> >>), UpdateDocumentsOp(<<D1b, D2>>)}]
\* One caller configuring the index and adding documents the store cannot take.
ConfigureWorkload ==
    [callers |-> {1},
     calls |-> {ConfigureOp(CfgA), AddDocumentOp(D1b), AddDocumentsOp(<<D2, D0>>),
                DeleteDocumentOp(<<"2">>)}]
\* One caller rewriting documents under IDs they do not carry.
RewriteWorkload ==
    [callers |-> {1},
     calls |-> {AddDocumentOp(D2), AddDocumentsOp(<<D1, D1b>>),
                UpdateDocumentOp(<<"1">>, D2), DeleteDocumentOp(<<"1">>)}]

Workloads ==
    {SingleDocumentWorkload, BatchWorkload, ConfigureWorkload, RewriteWorkload}

\* NewPersistedSimpleIndexWithDatabase on a path that holds no file yet.
Init ==
    /\ workload \in Workloads
    /\ index = NewSimpleIndex
    /\ store = EmptyStore
    /\ dbOpen = TRUE
    /\ opChan = <<>>
    /\ done = FALSE
    /\ worker = [pc |-> "select", op |-> NoOperation]
    /\ pc = [t \in Threads |-> "idle"]
    /\ call = [t \in Threads |-> NoOperation]
    /\ ret = [t \in Threads |-> NothingReturned]
    /\ panicked = FALSE
    /\ opened = [err |-> "nil", loadErr |-> "nil", cfgErr |-> "nil",
                 empty |-> TRUE, calls |-> 0]
    /\ ncalls = 0
    /\ faults = 0
    /\ reopens = 0
    /\ enqLog = <<>>
    /\ durLog = <<>>

\* A search answered from the durable store instead of the memory index.
SearchDurable(query) ==
    SimpleSearch([documents |-> StoredDocuments(store), config |-> EmptyMap], query)

\* PersistedSimpleIndex.Search: answered by the in-memory index alone.
Search(query) == SimpleSearch(index, query)


\* The error check left out.
ReturnsEarlyNever(err) == FALSE

\* `if err != nil { return err }` after the in-memory step.
ReturnsEarly(err) == err # "nil"

\* The in-memory step of a mutating call by caller t: op is the job it would
\* queue, r the result of the SimpleIndex method.
InMemoryStep(t, op, r) ==
    /\ ~panicked
    /\ pc[t] = "idle"
    /\ t \in workload.callers
    /\ op \in workload.calls
    /\ ncalls < MaxCalls
    /\ ncalls' = ncalls + 1
    /\ index' = r.index
    /\ call' = [call EXCEPT ![t] = [op EXCEPT !.seq = ncalls + 1]]
    /\ IF ReturnsEarly(r.err)
       THEN /\ pc' = pc
            /\ ret' = [ret EXCEPT ![t] = Returned(r.err, r.index # index, FALSE)]
       ELSE /\ pc' = [pc EXCEPT ![t] = "enqueue"]
            /\ ret' = [ret EXCEPT ![t] = NothingReturned]
    /\ UNCHANGED <<store, dbOpen, opChan, done, worker, panicked, opened,
                   faults, reopens, enqLog, durLog, workload>>

Configure(t, cfg) ==
    InMemoryStep(t, ConfigureOp(cfg),
                 Done(SimpleConfigure(index, cfg)))

AddDocument(t, doc) ==
    InMemoryStep(t, AddDocumentOp(doc),
                 Done(SimpleAddDocument(index, doc)))

AddDocuments(t, ds) ==
    InMemoryStep(t, AddDocumentsOp(ds),
                 Done(SimpleAddDocuments(index, ds)))

DeleteDocument(t, id) ==
    InMemoryStep(t, DeleteDocumentOp(id),
                 SimpleDeleteDocument(index, id))

DeleteDocuments(t, ids) ==
    InMemoryStep(t, DeleteDocumentsOp(ids),
                 SimpleDeleteDocuments(index, ids))

UpdateDocument(t, id, doc) ==
    InMemoryStep(t, UpdateDocumentOp(id, doc),
                 SimpleUpdateDocument(index, id, doc))

UpdateDocuments(t, ds) ==
    InMemoryStep(t, UpdateDocumentsOp(ds),
                 SimpleUpdateDocuments(index, ds))

\* A send with no default case, into a channel that always has room.
TrySendUnbounded(ch, op) == [sent |-> TRUE, ch |-> Append(ch, op)]

\* select { case p.opChan <- op: default: }: a send that never blocks.
TrySend(ch, op) ==
    IF Len(ch) < QueueCap THEN [sent |-> TRUE, ch |-> Append(ch, op)]
    ELSE [sent |-> FALSE, ch |-> ch]

\* A send that waits for room in the queue: p.opChan <- op with no default case.
EnqueueBlocking(t) ==
    /\ ~panicked
    /\ pc[t] = "enqueue"
    /\ dbOpen => Len(opChan) < QueueCap
    /\ opChan' = IF dbOpen THEN Append(opChan, call[t]) ELSE opChan
    /\ enqLog' = IF dbOpen THEN Append(enqLog, call[t].seq) ELSE enqLog
    /\ ret' = [ret EXCEPT ![t] = Returned("nil", FALSE, FALSE)]
    /\ pc' = [pc EXCEPT ![t] = "idle"]
    /\ UNCHANGED <<index, store, dbOpen, done, worker, call, panicked, opened,
                   ncalls, faults, reopens, durLog, workload>>

\* The rest of a mutating call: under p.mu.RLock, queue the job if the
\* database is open; return nil.
Enqueue(t) ==
    /\ ~panicked
    /\ pc[t] = "enqueue"
    /\ LET s == IF dbOpen THEN TrySend(opChan, call[t])
                ELSE [sent |-> FALSE, ch |-> opChan]
       IN  /\ opChan' = s.ch
           /\ enqLog' = IF s.sent THEN Append(enqLog, call[t].seq) ELSE enqLog
           /\ ret' = [ret EXCEPT ![t] = Returned("nil", FALSE, dbOpen /\ ~s.sent)]
    /\ pc' = [pc EXCEPT ![t] = "idle"]
    /\ UNCHANGED <<index, store, dbOpen, done, worker, call, panicked, opened,
                   ncalls, faults, reopens, durLog, workload>>

\* A receive that takes the newest op.
ReceiveNewest(ch) == [op |-> ch[Len(ch)], ch |-> SubSeq(ch, 1, Len(ch) - 1)]

\* op := <-p.opChan
Receive(ch) == [op |-> Head(ch), ch |-> Tail(ch)]

\* The worker's select takes a queued op ...
WorkerReceive ==
    /\ ~panicked
    /\ worker.pc = "select"
    /\ opChan # <<>>
    /\ worker' = [pc |-> "process", op |-> Receive(opChan).op]
    /\ opChan' = Receive(opChan).ch
    /\ UNCHANGED <<index, store, dbOpen, done, pc, call, ret, panicked, opened,
                   ncalls, faults, reopens, enqLog, durLog, workload>>

\* ... or, once p.done is closed, returns (either one when both are ready).
WorkerShutdown ==
    /\ ~panicked
    /\ worker.pc = "select"
    /\ done
    /\ worker' = [pc |-> "exited", op |-> NoOperation]
    /\ UNCHANGED <<index, store, dbOpen, opChan, done, pc, call, ret, panicked,
                   opened, ncalls, faults, reopens, enqLog, durLog, workload>>

\* A worker that returns when a transaction fails.
WorkerProcessFatal ==
    /\ ~panicked
    /\ worker.pc = "process"
    /\ \E commitFails \in BOOLEAN :
          /\ commitFails => faults < MaxFaults
          /\ faults' = IF commitFails THEN faults + 1 ELSE faults
          /\ IF dbOpen
             THEN LET r == dbUpdate(store, worker.op, commitFails)
                  IN  /\ store' = r.store
                      /\ durLog' = Append(durLog, [op |-> worker.op, ok |-> r.ok])
                      /\ worker' = [pc |-> IF r.ok THEN "select" ELSE "exited",
                                    op |-> NoOperation]
             ELSE /\ ~commitFails
                  /\ worker' = [pc |-> "select", op |-> NoOperation]
                  /\ UNCHANGED <<store, durLog>>
    /\ UNCHANGED <<index, dbOpen, opChan, done, pc, call, ret, panicked, opened,
                   ncalls, reopens, enqLog, workload>>

\* processDBOperation: one transaction for the op the worker holds.
WorkerProcess ==
    /\ ~panicked
    /\ worker.pc = "process"
    /\ \E commitFails \in BOOLEAN :
          /\ commitFails => faults < MaxFaults
          /\ faults' = IF commitFails THEN faults + 1 ELSE faults
          /\ IF dbOpen
             THEN LET r == dbUpdate(store, worker.op, commitFails)
                  IN  /\ store' = r.store
                      /\ durLog' = Append(durLog, [op |-> worker.op, ok |-> r.ok])
             ELSE /\ ~commitFails
                  /\ UNCHANGED <<store, durLog>>
    /\ worker' = [pc |-> "select", op |-> NoOperation]
    /\ UNCHANGED <<index, dbOpen, opChan, done, pc, call, ret, panicked, opened,
                   ncalls, reopens, enqLog, workload>>

\* A run-time panic kills the process: nothing of the instance survives it,
\* the store file does.
Crash ==
    /\ panicked' = TRUE
    /\ index' = NewSimpleIndex
    /\ dbOpen' = FALSE
    /\ opChan' = <<>>
    /\ done' = FALSE
    /\ worker' = [pc |-> "exited", op |-> NoOperation]
    /\ pc' = [t \in Threads |-> "idle"]
    /\ call' = [t \in Threads |-> NoOperation]
    /\ ret' = [t \in Threads |-> NothingReturned]
    /\ enqLog' = <<>>
    /\ durLog' = <<>>
    /\ UNCHANGED <<store, opened, ncalls, faults, reopens, workload>>

\* Close, first statement: close(p.done). Closing a closed channel panics.
CloseSignal(t) ==
    /\ ~panicked
    /\ pc[t] = "idle"
    /\ t \in workload.callers
    /\ IF done
       THEN Crash
       ELSE /\ done' = TRUE
            /\ pc' = [pc EXCEPT ![t] = "close_wait"]
            /\ call' = [call EXCEPT ![t] = Operation("close", <<>>, <<>>, <<>>, EmptyMap)]
            /\ ret' = [ret EXCEPT ![t] = NothingReturned]
            /\ UNCHANGED <<index, store, dbOpen, opChan, worker, panicked, opened,
                           ncalls, faults, reopens, enqLog, durLog, workload>>

\* Close without the wait.
WaitSkipped(w) == TRUE

\* p.wg.Wait() returns when the worker has.
WaitReturns(w) == w.pc = "exited"

CloseWait(t) ==
    /\ ~panicked
    /\ pc[t] = "close_wait"
    /\ WaitReturns(worker)
    /\ pc' = [pc EXCEPT ![t] = "close_db"]
    /\ UNCHANGED <<index, store, dbOpen, opChan, done, worker, call, ret,
                   panicked, opened, ncalls, faults, reopens, enqLog, durLog, workload>>

\* Under p.mu.Lock: p.db.Close(), p.db = nil; then p.index.Close().
CloseDatabase(t) ==
    /\ ~panicked
    /\ pc[t] = "close_db"
    /\ \E closeFails \in BOOLEAN :
          /\ closeFails => (dbOpen /\ faults < MaxFaults)
          /\ faults' = IF closeFails THEN faults + 1 ELSE faults
          /\ dbOpen' = IF closeFails THEN dbOpen ELSE FALSE
          /\ ret' = [ret EXCEPT ![t] =
                        Returned(IF closeFails THEN "failed to close database" ELSE "nil",
                                 FALSE, FALSE)]
    /\ pc' = [pc EXCEPT ![t] = "idle"]
    /\ UNCHANGED <<index, store, opChan, done, worker, call, panicked, opened,
                   ncalls, reopens, enqLog, durLog, workload>>

\* The process opens the same path again with
\* NewPersistedSimpleIndexWithDatabaseAndLoad, once the instance before is closed.
ReopenWithLoad ==
    /\ ~panicked
    /\ reopens < MaxReopens
    /\ ~dbOpen
    /\ \A t \in Threads : pc[t] = "idle"
    /\ \E fault \in {"none", "config", "documents"} :
          /\ fault # "none" => (faults < MaxFaults /\ ~IsDatabaseEmpty(store))
          /\ faults' = IF fault # "none" THEN faults + 1 ELSE faults
          /\ LET r == NewPersistedSimpleIndexWithDatabaseAndLoad(store, fault)
             IN  /\ index' = r.index
                 /\ opened' = [err |-> r.err, loadErr |-> r.loadErr, cfgErr |-> r.cfgErr,
                               empty |-> r.empty, calls |-> ncalls]
    /\ reopens' = reopens + 1
    /\ dbOpen' = TRUE
    /\ opChan' = <<>>
    /\ done' = FALSE
    /\ worker' = [pc |-> "select", op |-> NoOperation]
    /\ call' = [t \in Threads |-> NoOperation]
    /\ ret' = [t \in Threads |-> NothingReturned]
    /\ enqLog' = <<>>
    /\ durLog' = <<>>
    /\ UNCHANGED <<store, pc, panicked, ncalls, workload>>

Next ==
    \/ \E t \in Threads, cfg \in ConfigureArgs : Configure(t, cfg)
    \/ \E t \in Threads, doc \in AddDocumentArgs : AddDocument(t, doc)
    \/ \E t \in Threads, ds \in AddDocumentsArgs : AddDocuments(t, ds)
    \/ \E t \in Threads, id \in DeleteDocumentArgs : DeleteDocument(t, id)
    \/ \E t \in Threads, ids \in DeleteDocumentsArgs : DeleteDocuments(t, ids)
    \/ \E t \in Threads, a \in UpdateDocumentArgs : UpdateDocument(t, a.id, a.doc)
    \/ \E t \in Threads, ds \in UpdateDocumentsArgs : UpdateDocuments(t, ds)
    \/ \E t \in Threads : Enqueue(t)
    \/ WorkerReceive
    \/ WorkerShutdown
    \/ WorkerProcess
    \/ \E t \in Threads : CloseSignal(t)
    \/ \E t \in Threads : CloseWait(t)
    \/ \E t \in Threads : CloseDatabase(t)
    \/ ReopenWithLoad

Spec == Init /\ [][Next]_vars


\* ------------------------------------------- the index in service: add, search

QueryGo == <<"G", "o">>
QueryExtGo == KeyExt \o OpEquals \o <<"g", "o">>
QueryExtMd == KeyExt \o OpEquals \o <<"m", "d">>

\* One caller adding documents with four different IDs, and searching.
ServingWorkload ==
    [callers |-> {1},
     calls |-> {AddDocumentOp(D1), AddDocumentOp(D2), AddDocumentOp(D3), AddDocumentOp(D0)},
     queries |-> {QueryGo, QueryExtGo, QueryExtMd}]

ServingInit ==
    /\ workload = ServingWorkload
    /\ index = NewSimpleIndex
    /\ store = EmptyStore
    /\ dbOpen = TRUE
    /\ opChan = <<>>
    /\ done = FALSE
    /\ worker = [pc |-> "select", op |-> NoOperation]
    /\ pc = [t \in Threads |-> "idle"]
    /\ call = [t \in Threads |-> NoOperation]
    /\ ret = [t \in Threads |-> NothingReturned]
    /\ panicked = FALSE
    /\ opened = [err |-> "nil", loadErr |-> "nil", cfgErr |-> "nil",
                 empty |-> TRUE, calls |-> 0]
    /\ ncalls = 0
    /\ faults = 0
    /\ reopens = 0
    /\ enqLog = <<>>
    /\ durLog = <<>>

\* What Search hands back: the documents found and a nil error.
SearchReturned(hits) ==
    [val |-> "nil", partial |-> FALSE, dropped |-> FALSE, hits |-> hits]

\* PersistedSimpleIndex.Search called by caller t.
SearchCall(t, query) ==
    /\ ~panicked
    /\ pc[t] = "idle"
    /\ t \in workload.callers
    /\ query \in workload.queries
    /\ LET r == Search(query)
       IN  IF r.status = "panic"
           THEN Crash
           ELSE /\ call' = [call EXCEPT ![t] = Operation("search", query, <<>>, <<>>, EmptyMap)]
                /\ ret' = [ret EXCEPT ![t] = SearchReturned(r.hits)]
                /\ UNCHANGED <<index, store, dbOpen, opChan, done, worker, pc, panicked,
                               opened, ncalls, faults, reopens, enqLog, durLog, workload>>

ServingNext ==
    \/ \E t \in Threads, doc \in {D1, D2, D3, D0} : AddDocument(t, doc)
    \/ \E t \in Threads : Enqueue(t)
    \/ WorkerReceive
    \/ WorkerProcess
    \/ \E t \in Threads, query \in {QueryGo, QueryExtGo, QueryExtMd} : SearchCall(t, query)

ServingSpec == ServingInit /\ [][ServingNext]_vars


\* ------------------------------------------------------------------ claims

\* The SimpleIndex method a command runs first, by kind.
InMemoryResult(idx, op) ==
    CASE op.kind = "delete_document" -> SimpleDeleteDocument(idx, op.id)
      [] op.kind = "delete_documents" -> SimpleDeleteDocuments(idx, op.ids)
      [] op.kind = "update_document" -> SimpleUpdateDocument(idx, op.id, op.docs[1])
      [] op.kind = "update_documents" -> SimpleUpdateDocuments(idx, op.docs)
      [] op.kind = "add_document" -> Done(SimpleAddDocument(idx, op.docs[1]))
      [] op.kind = "add_documents" -> Done(SimpleAddDocuments(idx, op.docs))
      [] op.kind = "configure" -> Done(SimpleConfigure(idx, op.cfg))
      [] OTHER -> Done(idx)

\* The ops whose transaction committed, in the order the worker ran them.
AppliedSeqs == SelectSeq(durLog, LAMBDA e : e.ok)

\* C1: the jobs the worker applies to the store follow the order in which
\* their mutations took effect in memory (seq is that order): a job applied
\* after another one carries the later mutation.
C1_DurableOrderIsMemoryOrder ==
    \A i, j \in 1..Len(AppliedSeqs) :
        i < j => AppliedSeqs[i].op.seq < AppliedSeqs[j].op.seq

\* C2: once a Close has returned, a further Close completes without a fault:
\* no step taken after a Close has returned makes the process panic.
C2_CloseTwiceIsSafe ==
    [][(\E t \in Threads : call[t].kind = "close" /\ pc[t] = "idle" /\ ret[t].val = "nil")
       => ~panicked']_vars

\* A step in which caller t runs the in-memory part of a new command.
IssuesCommand(t) == ncalls' = ncalls + 1 /\ call'[t].seq = ncalls'

\* C3: when the in-memory step of a mutating command fails, the call returns
\* that error at once, the queue and the store are as before, and no job for
\* the call exists anywhere afterwards.
C3_FailedCallLeavesStoreAlone ==
    /\ [][\A t \in Threads :
            (IssuesCommand(t) /\ InMemoryResult(index, call'[t]).err # "nil")
            => /\ ret'[t].val = InMemoryResult(index, call'[t]).err
               /\ pc'[t] = "idle"
               /\ opChan' = opChan
               /\ enqLog' = enqLog
               /\ store' = store]_vars
    /\ [](\A t \in Threads :
            ret[t].val = "NotFound"
            => /\ \A i \in 1..Len(opChan) : opChan[i].seq # call[t].seq
               /\ \A i \in 1..Len(durLog) : durLog[i].op.seq # call[t].seq
               /\ worker.op.seq # call[t].seq)

\* A batch delete or update has failed after changing the index in memory.
C3_Witness ==
    \E t \in Threads :
        /\ ret[t].val = "NotFound"
        /\ ret[t].partial
        /\ call[t].kind \in {"delete_documents", "update_documents"}

\* C4: the queue never holds more than its capacity; a command that finds it
\* full drops its job, leaves the queue and the index as they are and
\* returns success.
C4_FullQueueDropsJob ==
    /\ [](Len(opChan) <= QueueCap)
    /\ [][\A t \in Threads :
            (pc[t] = "enqueue" /\ pc'[t] = "idle" /\ ~panicked'
               /\ dbOpen /\ Len(opChan) = QueueCap)
            => /\ opChan' = opChan
               /\ ret'[t].val = "nil"
               /\ index' = index]_vars

\* A command has returned success after its job was dropped at a full queue.
C4_Witness ==
    \E t \in Threads :
        /\ ret[t].val = "nil"
        /\ ret[t].dropped
        /\ Len(opChan) = QueueCap

\* The seqs of the ops the worker has taken, the one in hand last.
TakenSeqs ==
    [i \in 1..Len(durLog) |-> durLog[i].op.seq]
        \o (IF worker.pc = "process" THEN <<worker.op.seq>> ELSE <<>>)

\* C5: the worker takes the jobs in the order the queue accepted them, one
\* at a time: what it has taken is always the oldest part of what was accepted,
\* and the rest waits in the same order.
C5_WorkerIsFIFO ==
    TakenSeqs \o [i \in 1..Len(opChan) |-> opChan[i].seq] = enqLog

\* Two jobs have been applied while a third was accepted behind them.
C5_Witness ==
    /\ Len(AppliedSeqs) >= 2
    /\ Len(enqLog) >= 3

\* C6: Close signals, then waits for the worker, then closes the handle: the
\* handle is open whenever the worker holds a job, the worker has exited when
\* Close comes to close the handle and when Close has returned.
C6_CloseWaitsForWorker ==
    /\ worker.pc = "process" => dbOpen
    /\ \A t \in Threads :
          /\ pc[t] \in {"close_wait", "close_db"} => done
          /\ pc[t] = "close_db" => worker.pc = "exited"
          /\ (call[t].kind = "close" /\ pc[t] = "idle") => worker.pc = "exited"
    /\ ~dbOpen => worker.pc = "exited"

\* The worker holds a job while a Close is waiting for it.
C6_Witness ==
    /\ worker.pc = "process"
    /\ \E t \in Threads : pc[t] = "close_wait"


DistinctIDs(ds) == \A i, j \in 1..Len(ds) : i # j => ds[i].ID # ds[j].ID

\* C7: on a fresh store, AddDocuments(docs) with pairwise distinct IDs, the
\* worker having run the job, Close, and opening the path again with load
\* give an index with Count() = len(docs) (no storage failure injected).
C7_AddDocumentsRoundTrip ==
    [][(/\ reopens = 0 /\ reopens' = 1
        /\ ncalls = 1
        /\ faults' = 0
        /\ Len(durLog) = 1
        /\ durLog[1].op.kind = "add_documents"
        /\ DistinctIDs(durLog[1].op.docs))
       => SimpleCount(index') = Len(durLog[1].op.docs)]_vars

\* The instance was opened with load and no command has been issued since.
JustOpened == reopens >= 1 /\ opened.calls = ncalls /\ ~panicked

\* C8: after opening with load a store that holds documents and a persisted
\* configuration (no failure injected), ShowConfig() is that configuration
\* and the documents are loaded.
C8_LoadKeepsConfiguration ==
    (/\ JustOpened
     /\ ~IsDatabaseEmpty(store)
     /\ ConfigKey \in DOMAIN store.config
     /\ opened.cfgErr = "nil" /\ opened.loadErr = "nil")
    => /\ SimpleShowConfig(index) = UnmarshalConfig(store.config[ConfigKey])
       /\ index.documents = StoredDocuments(store)

MetaQuery(key, value) == key \o OpEquals \o value

\* A search with the query returns the document.
Found(doc, query) ==
    LET r == Search(query)
    IN  /\ r.status = "ok"
        /\ doc.ID \in DOMAIN r.hits
        /\ r.hits[doc.ID] >= 1
        /\ index.documents[doc.ID] = doc

\* The caller's AddDocument/AddDocuments has returned success and no command
\* has been issued since.
JustAdded(t) ==
    /\ ~panicked
    /\ pc[t] = "idle"
    /\ call[t].kind \in {"add_document", "add_documents"}
    /\ call[t].seq = ncalls
    /\ ret[t].val = "nil"

\* The i-th document of the batch is the last one carrying its ID.
LastWithID(ds, i) == \A j \in (i + 1)..Len(ds) : ds[j].ID # ds[i].ID

\* C10 as stated: once AddDocument/AddDocuments has returned, searching
\* key=value for any Meta field of any added document returns that document.
C10_AddedIsFoundByAnyMetaField ==
    \A t \in Threads :
        JustAdded(t)
        => \A i \in 1..Len(call[t].docs) :
               \A k \in DOMAIN call[t].docs[i].Meta :
                   Found(call[t].docs[i], MetaQuery(k, call[t].docs[i].Meta[k]))

\* C10, amended: once AddDocument/AddDocuments has returned, a document that
\* is the last of the call with its ID is returned by the search key=value for
\* each of its Meta fields whose value is not empty and whose text key=value
\* parses into the one condition (key, =, value); this holds whether the
\* durable job is still queued, was dropped, failed or has been applied.
C10_AddedIsFoundByParsedMetaField ==
    \A t \in Threads :
        JustAdded(t)
        => \A i \in 1..Len(call[t].docs) :
               \A k \in DOMAIN call[t].docs[i].Meta :
                   LET doc == call[t].docs[i]
                       p == ParseQuery(MetaQuery(k, doc.Meta[k]))
                   IN  (/\ LastWithID(call[t].docs, i)
                        /\ doc.Meta[k] # <<>>
                        /\ p.status = "ok"
                        /\ p.Conditions = <<QueryCondition(k, OpEquals, doc.Meta[k])>>)
                       => Found(doc, MetaQuery(k, doc.Meta[k]))

\* An added document is found by a Meta field while its durable job was dropped
\* and the store does not hold it.
C10_Witness ==
    \E t \in Threads :
        /\ JustAdded(t)
        /\ ret[t].dropped
        /\ call[t].docs[1].ID \notin DOMAIN store.documents
        /\ \E k \in DOMAIN call[t].docs[1].Meta :
               /\ call[t].docs[1].Meta[k] # <<>>
               /\ Found(call[t].docs[1], MetaQuery(k, call[t].docs[1].Meta[k]))


\* The worker finishes the transaction of the job it holds.
FinishesJob == worker.pc = "process" /\ worker'.pc # "process" /\ ~panicked' /\ dbOpen

\* The documents bucket once every document of ds is written under its ID,
\* the last one of an ID standing.
AllPut(bucket, ds) ==
    [k \in DOMAIN bucket \cup {ds[i].ID : i \in 1..Len(ds)} |->
        IF \E i \in 1..Len(ds) : ds[i].ID = k
        THEN LET last == CHOOSE i \in 1..Len(ds) :
                            /\ ds[i].ID = k
                            /\ \A j \in (i + 1)..Len(ds) : ds[j].ID # k
             IN  MarshalDocument(ds[last]).data
        ELSE bucket[k]]

\* The documents bucket once every id of ids is deleted.
AllDeleted(bucket, ids) ==
    [k \in DOMAIN bucket \ {ids[i] : i \in 1..Len(ids)} |-> bucket[k]]

\* The store holds every sub-operation of the job, and nothing else has changed.
AllApplied(before, after, op) ==
    CASE op.kind \in {"add_document", "add_documents", "update_documents"} ->
             after = [before EXCEPT !.documents = AllPut(before.documents, op.docs)]
      [] op.kind = "update_document" ->
             after = [before EXCEPT !.documents =
                         MapPut(before.documents, op.id, MarshalDocument(op.docs[1]).data)]
      [] op.kind = "delete_document" ->
             after = [before EXCEPT !.documents = AllDeleted(before.documents, <<op.id>>)]
      [] op.kind = "delete_documents" ->
             after = [before EXCEPT !.documents = AllDeleted(before.documents, op.ids)]
      [] op.kind = "configure" ->
             after = [before EXCEPT !.config = MapPut(before.config, ConfigKey, op.cfg)]
      [] OTHER -> FALSE

\* C12: the worker applies each job as one transaction and at most once: when
\* it finishes a job the store holds all of the job's sub-operations or is as
\* before, a failed job leaves the store as before, the job is not put back on
\* the queue, and no job is ever run twice.
C12_JobIsAtomicAndRunOnce ==
    [][FinishesJob
       => /\ Len(durLog') = Len(durLog) + 1
          /\ durLog'[Len(durLog')].op = worker.op
          /\ IF durLog'[Len(durLog')].ok
             THEN AllApplied(store, store', worker.op)
             ELSE store' = store
          /\ opChan' = opChan
          /\ worker'.op = NoOperation
          /\ \A i \in 1..Len(durLog) : durLog[i].op.seq # worker.op.seq
          /\ \A i \in 1..Len(opChan) : opChan[i].seq # worker.op.seq]_vars

\* A batch job failed at a later sub-operation with no storage fault injected,
\* and the store holds nothing of it.
C12_Witness ==
    \E i \in 1..Len(durLog) :
        /\ ~durLog[i].ok
        /\ durLog[i].op.kind = "add_documents"
        /\ faults = 0
        /\ durLog[i].op.docs[1].ID # <<>>
        /\ durLog[i].op.docs[1].ID \notin DOMAIN store.documents

\* C13: a job whose transaction fails changes no caller's return value or
\* position and nothing of the in-memory index, and leaves the worker at its
\* select with the queued jobs still waiting for it.
C13_DurableFailureStaysInternal ==
    [][(FinishesJob /\ ~durLog'[Len(durLog')].ok)
       => /\ ret' = ret
          /\ pc' = pc
          /\ call' = call
          /\ index' = index
          /\ opChan' = opChan
          /\ worker'.pc = "select"]_vars

\* After a failed job the worker has applied a later one, and the caller of the
\* failed job was told of success.
C13_Witness ==
    \E i, j \in 1..Len(durLog) :
        /\ i < j
        /\ ~durLog[i].ok
        /\ durLog[j].ok
        /\ \A t \in Threads : ret[t].val \in {"nil", "none"}


\* The worker has taken nothing yet: every accepted job is still queued.
WorkerPaused == worker.pc = "select" /\ durLog = <<>> /\ Len(opChan) = Len(enqLog)

\* The documents of the queued jobs followed by the document of caller t's call.
QueuedThenLast(t) == [i \in 1..Len(opChan) |-> opChan[i].docs[1]] \o <<call[t].docs[1]>>

\* Caller t has returned from the add that is the latest command.
ReturnedFromLastAdd(t) ==
    pc[t] = "idle" /\ call[t].kind = "add_document" /\ call[t].seq = ncalls

\* C14: with only AddDocument issued (ServingSpec; N = ncalls), every add that
\* has returned returned success, also at a full queue; when the worker has
\* taken no step and the N = capacity + 1 adds issued carry distinct IDs, the
\* last one was dropped and Count() is N; the queue never exceeds its capacity
\* and the store never holds more than N documents, drained or not.
C14_SaturatedAddsSucceed ==
    /\ \A t \in Threads :
          (pc[t] = "idle" /\ call[t].kind = "add_document") => ret[t].val = "nil"
    /\ Len(opChan) <= QueueCap
    /\ Cardinality(DOMAIN store.documents) <= ncalls
    /\ Cardinality(DOMAIN store.documents) <= SimpleCount(index)
    /\ \A t \in Threads :
          (/\ WorkerPaused
           /\ ReturnedFromLastAdd(t)
           /\ ncalls = Len(opChan) + 1
           /\ ncalls > QueueCap
           /\ DistinctIDs(QueuedThenLast(t)))
          => SimpleCount(index) = ncalls /\ ret[t].dropped

\* More adds with distinct IDs than the queue holds have all returned, the
\* worker has since drained the queue, and the store holds fewer documents
\* than memory.
C14_Witness ==
    /\ ncalls > QueueCap
    /\ SimpleCount(index) = ncalls
    /\ opChan = <<>>
    /\ worker.pc = "select"
    /\ Len(durLog) = QueueCap
    /\ \E t \in Threads : ReturnedFromLastAdd(t) /\ ret[t].dropped /\ ret[t].val = "nil"
    /\ Cardinality(DOMAIN store.documents) < ncalls

\* A step in which caller t receives the result of a Search.
SearchStep(t) ==
    call'[t].kind = "search" /\ <<call'[t], ret'[t]>> # <<call[t], ret[t]>>

\* C15: a Search on the durable index returns what the wrapped in-memory index
\* returns for the query, whatever the store and the queue hold, with a nil
\* error, and changes nothing of the index, its configuration, the queue, the
\* worker or the store.
C15_SearchIsServedFromMemory ==
    [][\A t \in Threads :
          SearchStep(t)
          => /\ ret'[t].hits = SimpleSearch(index, call'[t].id).hits
             /\ ret'[t].val = "nil"
             /\ index' = index
             /\ store' = store
             /\ opChan' = opChan
             /\ worker' = worker
             /\ enqLog' = enqLog
             /\ durLog' = durLog]_vars

\* A Search has returned a document that the store does not hold.
C15_Witness ==
    \E t \in Threads :
        /\ call[t].kind = "search"
        /\ \E k \in DOMAIN ret[t].hits :
              ret[t].hits[k] >= 1 /\ k \notin DOMAIN store.documents
        /\ StoredDocuments(store) # index.documents


\* ----------------------------------------- the in-memory index, one caller

QueryB == <<"b">>

SearchOp(query) == Operation("search", query, <<>>, <<>>, EmptyMap)

\* The SimpleIndex calls a run is made of.
IndexOps ==
    {AddDocumentOp(D1), AddDocumentOp(D1b), AddDocumentOp(D2),
     AddDocumentsOp(<<D2, D0>>), AddDocumentsOp(<<D1, D1b>>),
     DeleteDocumentOp(<<"1">>),
     DeleteDocumentsOp(<< <<"1">>, <<>>, <<"2">> >>),
     UpdateDocumentOp(<<"1">>, D2),
     UpdateDocumentsOp(<<D1b, D0, D2b>>),
     SearchOp(QueryB), SearchOp(QueryExtMd)}

\* NewSimpleIndex(), and the calls the caller is going to make, in order.
IndexInit ==
    /\ workload \in {[callers |-> {1}, calls |-> IndexOps, script |-> s] :
                        s \in [1..MaxCalls -> IndexOps]}
    /\ index = NewSimpleIndex
    /\ store = EmptyStore
    /\ dbOpen = FALSE
    /\ opChan = <<>>
    /\ done = FALSE
    /\ worker = [pc |-> "exited", op |-> NoOperation]
    /\ pc = [t \in Threads |-> "idle"]
    /\ call = [t \in Threads |-> NoOperation]
    /\ ret = [t \in Threads |-> NothingReturned]
    /\ panicked = FALSE
    /\ opened = [err |-> "nil", loadErr |-> "nil", cfgErr |-> "nil",
                 empty |-> TRUE, calls |-> 0]
    /\ ncalls = 0
    /\ faults = 0
    /\ reopens = 0
    /\ enqLog = <<>>
    /\ durLog = <<>>

\* The call the caller makes next.
NextOp == workload.script[ncalls + 1]

\* The calls made so far, in order.
Issued == SubSeq(workload.script, 1, ncalls)

\* The caller runs its next call, of the given kind, on the SimpleIndex.
IndexStep(kind, r, returned) ==
    /\ ~panicked
    /\ ncalls < Len(workload.script)
    /\ NextOp.kind = kind
    /\ ncalls' = ncalls + 1
    /\ index' = r.index
    /\ call' = [call EXCEPT ![1] = [NextOp EXCEPT !.seq = ncalls + 1]]
    /\ ret' = [ret EXCEPT ![1] = returned]
    /\ UNCHANGED <<store, dbOpen, opChan, done, worker, pc, panicked, opened,
                   faults, reopens, enqLog, durLog, workload>>

\* A mutating SimpleIndex method: the index it leaves and the error it returns.
IndexMutation(kind, r) == IndexStep(kind, r, Returned(r.err, r.index # index, FALSE))

IndexAddDocument ==
    IndexMutation("add_document", Done(SimpleAddDocument(index, NextOp.docs[1])))

IndexAddDocuments ==
    IndexMutation("add_documents", Done(SimpleAddDocuments(index, NextOp.docs)))

IndexDeleteDocument ==
    IndexMutation("delete_document", SimpleDeleteDocument(index, NextOp.id))

IndexDeleteDocuments ==
    IndexMutation("delete_documents", SimpleDeleteDocuments(index, NextOp.ids))

IndexUpdateDocument ==
    IndexMutation("update_document", SimpleUpdateDocument(index, NextOp.id, NextOp.docs[1]))

IndexUpdateDocuments ==
    IndexMutation("update_documents", SimpleUpdateDocuments(index, NextOp.docs))

\* SimpleIndex.Search; a run-time fault in the parser ends the process.
IndexSearch ==
    LET r == SimpleSearch(index, NextOp.id)
    IN  IF ~panicked /\ ncalls < Len(workload.script) /\ NextOp.kind = "search"
           /\ r.status = "panic"
        THEN Crash
        ELSE IndexStep("search", Done(index), SearchReturned(r.hits))

IndexNext ==
    \/ IndexAddDocument
    \/ IndexAddDocuments
    \/ IndexDeleteDocument
    \/ IndexDeleteDocuments
    \/ IndexUpdateDocument
    \/ IndexUpdateDocuments
    \/ IndexSearch

IndexSpec == IndexInit /\ [][IndexNext]_vars


\* The query of a search goes to the substring fallback.
FallsBack(query) ==
    query # <<>> /\ (ParseQuery(query).status = "error" \/ ParseQuery(query).Conditions = <<>>)

\* C16: a search answered by the substring fallback lists every stored
\* document at most once, whichever of its fields the query matches.
C16_FallbackListsDocumentOnce ==
    (~panicked /\ call[1].kind = "search" /\ FallsBack(call[1].id))
    => \A k \in DOMAIN ret[1].hits : ret[1].hits[k] <= 1

\* Every call made so far is an AddDocument or an AddDocuments.
OnlyAdds == \A i \in 1..Len(Issued) : Issued[i].kind \in {"add_document", "add_documents"}

RECURSIVE Flatten(_)
\* The documents of the calls, in the order they were added.
Flatten(ops) == IF ops = <<>> THEN <<>> ELSE Head(ops).docs \o Flatten(Tail(ops))

\* C18: after a sequence of AddDocument/AddDocuments calls on an empty index
\* adding N documents in all, Count() is the number of distinct IDs among them:
\* N when the IDs are all different, less than N when one repeats, never more;
\* the document stored under an ID is the last one added with it.
C18_CountIsDistinctIDs ==
    (~panicked /\ OnlyAdds)
    => LET added == Flatten(Issued)
           N == Len(added)
           ids == {added[i].ID : i \in 1..N}
       IN  /\ SimpleCount(index) = Cardinality(ids)
           /\ SimpleCount(index) <= N
           /\ DistinctIDs(added) => SimpleCount(index) = N
           /\ ~DistinctIDs(added) => SimpleCount(index) < N
           /\ DOMAIN index.documents = ids
           /\ \A i \in 1..N : LastWithID(added, i) => index.documents[added[i].ID] = added[i]

\* Three calls have added documents, two of them under one ID.
C18_Witness ==
    /\ OnlyAdds
    /\ Len(Issued) >= 3
    /\ ~DistinctIDs(Flatten(Issued))
    /\ SimpleCount(index) >= 2
    /\ SimpleCount(index) < Len(Flatten(Issued))

\* The caller makes its next call, a call of the given kind.
Calls(kind) == ncalls' = ncalls + 1 /\ call'[1].kind = kind /\ ~panicked'

\* C19: DeleteDocument of an ID the index does not hold returns the not-found
\* error and leaves the documents, hence Count(), as they were; of an ID it
\* holds, it removes that document and no other and returns success.
C19_DeleteOfAbsentIsNotFound ==
    [][Calls("delete_document")
       => IF call'[1].id \notin DOMAIN index.documents
          THEN /\ ret'[1].val = "NotFound"
               /\ index' = index
               /\ SimpleCount(index') = SimpleCount(index)
          ELSE /\ ret'[1].val = "nil"
               /\ DOMAIN index'.documents = DOMAIN index.documents \ {call'[1].id}
               /\ \A k \in DOMAIN index'.documents : index'.documents[k] = index.documents[k]
               /\ index'.config = index.config]_vars

\* A DeleteDocument has returned not-found on an index that holds documents.
C19_Witness ==
    /\ call[1].kind = "delete_document"
    /\ ret[1].val = "NotFound"
    /\ SimpleCount(index) >= 1

\* The position of the first entry of a batch delete that is not in the index
\* when its turn comes (0 when every entry is found).
FirstMissingDelete(docs, ids) ==
    LET missing == {i \in 1..Len(ids) :
                       \/ ids[i] \notin DOMAIN docs
                       \/ \E j \in 1..(i - 1) : ids[j] = ids[i]}
    IN  IF missing = {} THEN 0 ELSE CHOOSE i \in missing : \A j \in missing : i <= j

\* The position of the first document of a batch update whose ID is not in the
\* index (0 when every one is found).
FirstMissingUpdate(docs, ds) ==
    LET missing == {i \in 1..Len(ds) : ds[i].ID \notin DOMAIN docs}
    IN  IF missing = {} THEN 0 ELSE CHOOSE i \in missing : \A j \in missing : i <= j

\* The documents map with the first n ids deleted.
DeletedPrefix(docs, ids, n) ==
    [k \in DOMAIN docs \ {ids[i] : i \in 1..n} |-> docs[k]]

\* The documents map with the first n documents of ds stored under their IDs.
UpdatedPrefix(docs, ds, n) ==
    [k \in DOMAIN docs |->
        IF \E i \in 1..n : ds[i].ID = k
        THEN ds[CHOOSE i \in 1..n : ds[i].ID = k /\ \A j \in (i + 1)..n : ds[j].ID # k]
        ELSE docs[k]]

\* C20: DeleteDocuments and UpdateDocuments go through their list in order and
\* stop with the not-found error at the first entry absent from the index: the
\* entries before it are deleted/updated, the entries after it and every other
\* document are as before; with no absent entry the whole list is applied.
C20_BatchStopsAtFirstMissing ==
    [][/\ Calls("delete_documents")
          => LET f == FirstMissingDelete(index.documents, call'[1].ids)
                 n == IF f = 0 THEN Len(call'[1].ids) ELSE f - 1
             IN  /\ ret'[1].val = IF f = 0 THEN "nil" ELSE "NotFound"
                 /\ index'.documents = DeletedPrefix(index.documents, call'[1].ids, n)
       /\ Calls("update_documents")
          => LET f == FirstMissingUpdate(index.documents, call'[1].docs)
                 n == IF f = 0 THEN Len(call'[1].docs) ELSE f - 1
             IN  /\ ret'[1].val = IF f = 0 THEN "nil" ELSE "NotFound"
                 /\ index'.documents = UpdatedPrefix(index.documents, call'[1].docs, n)]_vars

\* A batch delete has stopped at a missing ID after deleting a document, and a
\* document listed after the missing ID is still in the index.
C20_Witness ==
    /\ call[1].kind = "delete_documents"
    /\ ret[1].val = "NotFound"
    /\ ret[1].partial
    /\ call[1].ids[1] \notin DOMAIN index.documents
    /\ call[1].ids[3] \in DOMAIN index.documents


\* --------------------------------------------------- the parser, one query

\* Query texts put together as dimension, gap, operator, gap, value.
QueryDimensions == {<<>>, KeyExt, KeyT}
QueryGaps == {<<>>, <<" ">>}
QueryOperators == {<<>>, OpEquals, OpNotEquals, OpLessEq, OpContains}
QueryValues ==
    {<<>>, <<"g", "o">>, <<"\"", "\"">>, <<"\"", "g", "o", "\"">>, <<"'", "'">>, <<"\"">>,
     <<"g", "o", " ", "a", "n", "d", " ", "b">>,
     <<"g", "o", " ", "a", "n", "d", " ", "t", "=", "a">>,
     <<"\"", "g", "o", "\"", " ", "a", "n", "d", " ", "t", "=", "a">>}

QueryPool ==
    {d \o g1 \o o \o g2 \o v :
        d \in QueryDimensions, g1 \in QueryGaps, o \in QueryOperators,
        g2 \in QueryGaps, v \in QueryValues}

ParseOp(query) == Operation("parse", query, <<>>, <<>>, EmptyMap)

\* A caller about to call ParseQuery on a query text.
QueryInit ==
    /\ \E query \in QueryPool : call = [t \in Threads |-> IF t = 1 THEN ParseOp(query) ELSE NoOperation]
    /\ pc = [t \in Threads |-> IF t = 1 THEN "parse" ELSE "idle"]
    /\ workload = [callers |-> {1}, calls |-> {}]
    /\ index = NewSimpleIndex
    /\ store = EmptyStore
    /\ dbOpen = FALSE
    /\ opChan = <<>>
    /\ done = FALSE
    /\ worker = [pc |-> "exited", op |-> NoOperation]
    /\ ret = [t \in Threads |-> NothingReturned]
    /\ panicked = FALSE
    /\ opened = [err |-> "nil", loadErr |-> "nil", cfgErr |-> "nil",
                 empty |-> TRUE, calls |-> 0]
    /\ ncalls = 0
    /\ faults = 0
    /\ reopens = 0
    /\ enqLog = <<>>
    /\ durLog = <<>>

\* What ParseQuery hands back: (*Query, nil) or (nil, error).
ParseReturned(r) ==
    [val |-> IF r.status = "ok" THEN "nil" ELSE "FormatError",
     partial |-> FALSE, dropped |-> FALSE, conds |-> r.Conditions]

\* ParseQuery(queryStr); a slice out of range ends the process.
ParseCall ==
    /\ ~panicked
    /\ pc[1] = "parse"
    /\ LET r == ParseQuery(call[1].id)
       IN  IF r.status = "panic"
           THEN Crash
           ELSE /\ ret' = [ret EXCEPT ![1] = ParseReturned(r)]
                /\ pc' = [pc EXCEPT ![1] = "idle"]
                /\ UNCHANGED <<index, store, dbOpen, opChan, done, worker, call, panicked,
                               opened, ncalls, faults, reopens, enqLog, durLog, workload>>

QueryNext == ParseCall

QuerySpec == QueryInit /\ [][QueryNext]_vars

\* ParseQuery has returned to the caller.
Parsed == ~panicked /\ pc[1] = "idle" /\ call[1].kind = "parse"

\* The non-blank segments of a query text between " and " separators.
Segments(query) ==
    LET parts == Split(query, <<" ", "a", "n", "d", " ">>)
    IN  SelectSeq([i \in 1..Len(parts) |-> TrimSpace(parts[i])], LAMBDA part : part # <<>>)

\* seg is <dimension><ws>*<operator><ws>*<value>: word characters, an
\* operator, and a value of at least one character, none a newline.
Shaped(seg) ==
    \E i \in 1..Len(seg), j \in 1..Len(seg), k \in 1..Len(seg), m \in 1..Len(seg) :
        /\ i <= j /\ j < k /\ k <= m /\ m < Len(seg)
        /\ \A x \in 1..i : seg[x] \in WordChars
        /\ \A x \in (i + 1)..j : seg[x] \in RegexSpace
        /\ \E o \in 1..Len(OperatorAlternation) : SubSeq(seg, j + 1, k) = OperatorAlternation[o]
        /\ \A x \in (k + 1)..m : seg[x] \in RegexSpace
        /\ \A x \in (m + 1)..Len(seg) : seg[x] # "\n"

\* C17: ParseQuery returns a format error when a non-blank segment of the
\* query does not have the shape dimension, operator, value, and never returns
\* a condition whose value, the surrounding quotes stripped, is empty.
C17_ParseRejectsMalformed ==
    Parsed
    => /\ (\E i \in 1..Len(Segments(call[1].id)) : ~Shaped(Segments(call[1].id)[i]))
          => ret[1].val = "FormatError"
       /\ ret[1].val = "nil"
          => \A i \in 1..Len(ret[1].conds) : ret[1].conds[i].Value # <<>>


\* ------------------------------- the document map under concurrent callers

CountOp == Operation("count", <<>>, <<>>, <<>>, EmptyMap)

\* Two callers of an index with no database open.
MapWorkload ==
    [callers |-> {1, 2},
     calls |-> {AddDocumentOp(D1), DeleteDocumentOp(<<"1">>), UpdateDocumentOp(<<"1">>, D1b),
                SearchOp(QueryExtGo), CountOp}]

MapInit ==
    /\ workload = MapWorkload
    /\ index = NewSimpleIndex
    /\ store = EmptyStore
    /\ dbOpen = FALSE
    /\ opChan = <<>>
    /\ done = FALSE
    /\ worker = [pc |-> "exited", op |-> NoOperation]
    /\ pc = [t \in Threads |-> "idle"]
    /\ call = [t \in Threads |-> NoOperation]
    /\ ret = [t \in Threads |-> NothingReturned]
    /\ panicked = FALSE
    /\ opened = [err |-> "nil", loadErr |-> "nil", cfgErr |-> "nil",
                 empty |-> TRUE, calls |-> 0]
    /\ ncalls = 0
    /\ faults = 0
    /\ reopens = 0
    /\ enqLog = <<>>
    /\ durLog = <<>>

\* The call writes idx.documents.
WritesMap(op) ==
    op.kind \in {"add_document", "add_documents", "delete_document", "delete_documents",
                 "update_document", "update_documents"}

\* Caller t is inside a SimpleIndex method, reading or writing idx.documents.
InMap(t) == pc[t] \in {"in_map", "in_map_raced"}

\* Callers t and u are in the map together and one of them writes it.
Conflict(t, u) ==
    t # u /\ InMap(t) /\ InMap(u) /\ (WritesMap(call[t]) \/ WritesMap(call[u]))

\* Caller t enters the SimpleIndex method of its call: the wrapper takes no
\* lock before it and SimpleIndex has none. An access that overlaps a write of
\* another caller is a data race for both.
EnterMap(t, op) ==
    /\ ~panicked
    /\ pc[t] = "idle"
    /\ t \in workload.callers
    /\ op \in workload.calls
    /\ ncalls < MaxCalls
    /\ ncalls' = ncalls + 1
    /\ call' = [call EXCEPT ![t] = [op EXCEPT !.seq = ncalls + 1]]
    /\ ret' = [ret EXCEPT ![t] = NothingReturned]
    /\ pc' = [u \in Threads |->
                IF u = t
                THEN IF \E v \in Threads \ {t} :
                            InMap(v) /\ (WritesMap(op) \/ WritesMap(call[v]))
                     THEN "in_map_raced" ELSE "in_map"
                ELSE IF InMap(u) /\ (WritesMap(op) \/ WritesMap(call[u]))
                     THEN "in_map_raced" ELSE pc[u]]
    /\ UNCHANGED <<index, store, dbOpen, opChan, done, worker, panicked, opened,
                   faults, reopens, enqLog, durLog, workload>>

\* What a call hands back from the map: the error, the hits of a search, the
\* number Count() read.
MapReturned(op, idx, r) ==
    [val |-> r.err, partial |-> FALSE, dropped |-> FALSE,
     hits |-> IF op.kind = "search" THEN SimpleSearch(idx, op.id).hits ELSE EmptyMap,
     count |-> IF op.kind = "count" THEN SimpleCount(idx) ELSE 0]

\* Caller t leaves the method. After a race the write may be lost.
LeaveMap(t) ==
    /\ ~panicked
    /\ InMap(t)
    /\ LET r == InMemoryResult(index, call[t])
       IN  /\ index' \in (IF pc[t] = "in_map_raced" THEN {r.index, index} ELSE {r.index})
           /\ ret' = [ret EXCEPT ![t] = MapReturned(call[t], index, r)]
    /\ pc' = [pc EXCEPT ![t] = "idle"]
    /\ UNCHANGED <<store, dbOpen, opChan, done, worker, call, panicked, opened,
                   ncalls, faults, reopens, enqLog, durLog, workload>>

\* The Go run time detects the race: "fatal error: concurrent map writes".
MapFault ==
    /\ ~panicked
    /\ \E t \in Threads : pc[t] = "in_map_raced"
    /\ Crash

MapNext ==
    \/ \E t \in Threads, op \in MapWorkload.calls : EnterMap(t, op)
    \/ \E t \in Threads : LeaveMap(t)
    \/ MapFault

MapSpec == MapInit /\ [][MapNext]_vars

\* C11: no two callers are inside the document map at the same time when one
\* of them writes it.
C11_MapAccessIsExclusive ==
    \A t, u \in Threads : ~Conflict(t, u)


\* ------------------------------------------- updates of the in-memory index

\* C21: UpdateDocument(id, doc) with id in the index stores doc under the key
\* id, also when doc.ID is another ID, and leaves the set of keys, Count() and
\* every other document as they were; with id absent it returns the not-found
\* error and changes nothing. A successful UpdateDocuments leaves every
\* listed document stored under the ID the document carries.
C21_UpdateKeepsTargetKey ==
    [][/\ Calls("update_document")
          => IF call'[1].id \in DOMAIN index.documents
             THEN /\ ret'[1].val = "nil"
                  /\ DOMAIN index'.documents = DOMAIN index.documents
                  /\ SimpleCount(index') = SimpleCount(index)
                  /\ index'.documents[call'[1].id] = call'[1].docs[1]
                  /\ \A k \in DOMAIN index.documents \ {call'[1].id} :
                         index'.documents[k] = index.documents[k]
             ELSE /\ ret'[1].val = "NotFound"
                  /\ index' = index
       /\ (Calls("update_documents") /\ ret'[1].val = "nil")
          => /\ DOMAIN index'.documents = DOMAIN index.documents
             /\ \A i \in 1..Len(call'[1].docs) :
                    /\ call'[1].docs[i].ID \in DOMAIN index'.documents
                    /\ index'.documents[call'[1].docs[i].ID].ID = call'[1].docs[i].ID
                    /\ (\A j \in (i + 1)..Len(call'[1].docs) :
                            call'[1].docs[j].ID # call'[1].docs[i].ID)
                       => index'.documents[call'[1].docs[i].ID] = call'[1].docs[i]]_vars

\* An UpdateDocument has stored, under the target ID, a document that carries
\* another ID, in an index that holds a second document.
C21_Witness ==
    /\ call[1].kind = "update_document"
    /\ ret[1].val = "nil"
    /\ index.documents[call[1].id].ID # call[1].id
    /\ SimpleCount(index) = 2


\* ------------------------------- the configuration map, one caller's handles

\* cfg := map[string]interface{}{"foo": 1, "bar": true}
CfgFooBar ==
    MapPut(MapPut(EmptyMap, "foo", ConfigValue("int", 1)), "bar", ConfigValue("bool", TRUE))

\* The maps a caller builds and passes to Configure.
ConfigLiterals == {CfgFooBar, CfgA, EmptyMap}

\* The entries a caller writes into, or deletes from, a map it holds.
ConfigEntries ==
    {MapPut(EmptyMap, "foo", ConfigValue("int", 999)),
     MapPut(EmptyMap, "baz", ConfigValue("int", 1))}

\* Configure(m) with m the map held in the caller's variable var.
ConfigureVarOp(var, cfg) == Operation("configure", <<var>>, <<>>, <<>>, cfg)

ShowConfigOp == Operation("show_config", <<>>, <<>>, <<>>, EmptyMap)

\* m[k] = v and delete(m, k) on the map held in the caller's variable var.
SetEntryOp(var, entry) == Operation("set_entry", <<var>>, <<>>, <<>>, entry)
DeleteEntryOp(var, entry) == Operation("delete_entry", <<var>>, <<>>, <<>>, entry)

\* The caller's variables: conf, the map ShowConfig returned last (got tells
\* whether one was returned), and shared, the variables among cfg and conf
\* that refer to the very map idx.config refers to.
Locals(val, conf, got, shared) ==
    [val |-> val, partial |-> FALSE, dropped |-> FALSE,
     conf |-> conf, got |-> got, shared |-> shared]

ConfigInit ==
    /\ workload = [callers |-> {1}, calls |-> {ShowConfigOp}]
    /\ index = NewSimpleIndex
    /\ store = EmptyStore
    /\ dbOpen = FALSE
    /\ opChan = <<>>
    /\ done = FALSE
    /\ worker = [pc |-> "exited", op |-> NoOperation]
    /\ pc = [t \in Threads |-> "idle"]
    /\ call = [t \in Threads |-> NoOperation]
    /\ ret = [t \in Threads |-> Locals("none", EmptyMap, FALSE, {})]
    /\ panicked = FALSE
    /\ opened = [err |-> "nil", loadErr |-> "nil", cfgErr |-> "nil",
                 empty |-> TRUE, calls |-> 0]
    /\ ncalls = 0
    /\ faults = 0
    /\ reopens = 0
    /\ enqLog = <<>>
    /\ durLog = <<>>

\* The caller executes one statement: the index and the caller's variables after it.
ConfigStep(op, idx, locals) ==
    /\ ncalls < MaxCalls
    /\ ncalls' = ncalls + 1
    /\ index' = idx
    /\ call' = [call EXCEPT ![1] = [op EXCEPT !.seq = ncalls + 1]]
    /\ ret' = [ret EXCEPT ![1] = locals]
    /\ UNCHANGED <<store, dbOpen, opChan, done, worker, pc, panicked, opened,
                   faults, reopens, enqLog, durLog, workload>>

\* cfg := <literal>; idx.Configure(cfg). idx.config = config keeps the
\* caller's map itself: cfg and idx.config are one map from here on.
ConfigureLiteral(cfg) ==
    ConfigStep(ConfigureVarOp("cfg", cfg), SimpleConfigure(index, cfg),
               Locals("nil", ret[1].conf, ret[1].got, {"cfg"}))

\* idx.Configure(conf), conf being the map a ShowConfig returned.
ConfigureReturned ==
    /\ ret[1].got
    /\ ConfigStep(ConfigureVarOp("conf", ret[1].conf), SimpleConfigure(index, ret[1].conf),
                  Locals("nil", ret[1].conf, TRUE,
                         IF "conf" \in ret[1].shared THEN ret[1].shared ELSE {"conf"}))

\* ShowConfig: the map it returns is made by the call, filled entry by entry.
ShowConfigResult(idx) == [config |-> SimpleShowConfig(idx), fresh |-> TRUE]

\* conf, _ := idx.ShowConfig()
ConfigShowConfig ==
    LET r == ShowConfigResult(index)
    IN  ConfigStep(ShowConfigOp, index,
                   Locals("nil", r.config, TRUE,
                          IF r.fresh THEN ret[1].shared \ {"conf"}
                          ELSE ret[1].shared \cup {"conf"}))

\* The caller changes the map held in var: the change is seen through every
\* variable that refers to that map, idx.config included when it is shared.
ConfigAssign(op, change(_)) ==
    LET var == op.id[1]
        hit == var \in ret[1].shared
    IN  /\ var = "conf" => ret[1].got
        /\ var = "cfg" => hit
        /\ ConfigStep(op,
                      IF hit THEN [index EXCEPT !.config = change(index.config)] ELSE index,
                      Locals(ret[1].val,
                             IF var = "conf" \/ (hit /\ "conf" \in ret[1].shared)
                             THEN change(ret[1].conf) ELSE ret[1].conf,
                             ret[1].got, ret[1].shared))

SetEntry(var, entry) ==
    LET k == CHOOSE x \in DOMAIN entry : TRUE
        Put(m) == MapPut(m, k, entry[k])
    IN  ConfigAssign(SetEntryOp(var, entry), Put)

DeleteEntry(var, entry) ==
    LET k == CHOOSE x \in DOMAIN entry : TRUE
        Del(m) == MapDel(m, k)
    IN  ConfigAssign(DeleteEntryOp(var, entry), Del)

ConfigNext ==
    \/ \E cfg \in ConfigLiterals : ConfigureLiteral(cfg)
    \/ ConfigureReturned
    \/ ConfigShowConfig
    \/ \E var \in {"cfg", "conf"}, entry \in ConfigEntries : SetEntry(var, entry)
    \/ \E var \in {"cfg", "conf"}, entry \in ConfigEntries : DeleteEntry(var, entry)

ConfigSpec == ConfigInit /\ [][ConfigNext]_vars

\* The caller changes an entry of the map ShowConfig returned.
ChangesReturned ==
    /\ ncalls' = ncalls + 1
    /\ call'[1].kind \in {"set_entry", "delete_entry"}
    /\ call'[1].id = <<"conf">>

\* C22: ShowConfig() returns a map equal to the configuration the index
\* holds, which is the one last passed to Configure, and leaves the index as
\* it is; adding, overwriting or removing an entry of a map ShowConfig
\* returned never changes what ShowConfig() returns afterwards.
C22_ShowConfigIsDefensiveCopy ==
    [][/\ Calls("configure") => SimpleShowConfig(index') = call'[1].cfg
       /\ Calls("show_config")
          => /\ ret'[1].conf = SimpleShowConfig(index)
             /\ index' = index
       /\ ChangesReturned
          => SimpleShowConfig(index') = SimpleShowConfig(index)]_vars


\* --------------------------------------- Search on an index already filled

QueryAnd == <<" ", "a", "n", "d", " ">>
QueryBlank == <<" ", " ">>
QueryExtC == KeyExt \o OpEquals \o <<"c">>
QueryTextGo == <<"t", "e", "x", "t">> \o <<" ">> \o OpContains \o <<" ", "G", "O">>
QueryLoneQuote == KeyT \o OpEquals \o <<"\"">>

\* The query texts passed to Search.
DispatchQueries ==
    {<<>>, QueryB, QueryGo, QueryExtGo, QueryExtMd, QueryExtC, QueryTextGo,
     KeyExt, QueryAnd, QueryBlank, QueryLoneQuote}

\* The document lists the index is filled from before the searches.
DispatchFills ==
    {<<>>, <<D1>>, <<D1, D2>>, <<D1b, D2b, D0>>, <<D3, D2, D0>>, <<D1, D2b, D3>>,
     <<D1, D2, D3, D0>>}

DispatchInit ==
    /\ workload = [callers |-> {1}, calls |-> {}, queries |-> DispatchQueries]
    /\ index \in {SimpleAddDocuments(NewSimpleIndex, ds) : ds \in DispatchFills}
    /\ store = EmptyStore
    /\ dbOpen = FALSE
    /\ opChan = <<>>
    /\ done = FALSE
    /\ worker = [pc |-> "exited", op |-> NoOperation]
    /\ pc = [t \in Threads |-> "idle"]
    /\ call = [t \in Threads |-> NoOperation]
    /\ ret = [t \in Threads |-> NothingReturned]
    /\ panicked = FALSE
    /\ opened = [err |-> "nil", loadErr |-> "nil", cfgErr |-> "nil",
                 empty |-> TRUE, calls |-> 0]
    /\ ncalls = 0
    /\ faults = 0
    /\ reopens = 0
    /\ enqLog = <<>>
    /\ durLog = <<>>

\* SimpleIndex.Search(query); a run-time fault in the parser ends the process.
DispatchSearch(query) ==
    /\ ~panicked
    /\ ncalls < MaxCalls
    /\ LET r == SimpleSearch(index, query)
       IN  IF r.status = "panic"
           THEN Crash
           ELSE /\ ncalls' = ncalls + 1
                /\ call' = [call EXCEPT ![1] = [SearchOp(query) EXCEPT !.seq = ncalls + 1]]
                /\ ret' = [ret EXCEPT ![1] = SearchReturned(r.hits)]
                /\ UNCHANGED <<index, store, dbOpen, opChan, done, worker, pc, panicked,
                               opened, faults, reopens, enqLog, durLog, workload>>

DispatchNext == \E query \in DispatchQueries : DispatchSearch(query)

DispatchSpec == DispatchInit /\ [][DispatchNext]_vars

\* The keys of the documents a search result lists.
Listed(hits) == {k \in DOMAIN hits : hits[k] >= 1}

\* The stored documents that hold the text in Text, in a Meta key or value,
\* or in Source, letter case ignored.
HoldingText(docs, query) ==
    {k \in DOMAIN docs :
        \/ Contains(ToLower(docs[k].Text), ToLower(query))
        \/ \E mk \in DOMAIN docs[k].Meta :
               \/ Contains(ToLower(mk), ToLower(query))
               \/ Contains(ToLower(docs[k].Meta[mk]), ToLower(query))
        \/ Contains(ToLower(docs[k].Source), ToLower(query))}

\* The stored documents the conditions are all true of.
Satisfying(docs, conds) ==
    {k \in DOMAIN docs :
        \A i \in 1..Len(conds) :
            /\ ~EvaluateCondition(conds[i], docs[k]).err
            /\ EvaluateCondition(conds[i], docs[k]).match}

\* The documents Search is to list for a query, by the three cases.
Dispatched(docs, query) ==
    IF query = <<>> THEN {}
    ELSE IF ParseQuery(query).status = "ok" /\ Len(ParseQuery(query).Conditions) >= 1
    THEN Satisfying(docs, ParseQuery(query).Conditions)
    ELSE HoldingText(docs, query)

\* C23: a Search that returns does so with no error and the index as it was,
\* listing: nothing for the empty query; for a query that parses into one
\* condition or more, the stored documents the parsed query is true of (and
\* nothing else when there is none); for a query that does not parse, or
\* parses into no condition, the stored documents holding the query text in
\* Text, a Meta key or value, or Source, letter case ignored.
C23_SearchDispatch ==
    [][Calls("search")
       => /\ ret'[1].val = "nil"
          /\ Listed(ret'[1].hits) = Dispatched(index.documents, call'[1].id)
          /\ call'[1].id = <<>> => ret'[1].hits = EmptyMap
          /\ index' = index]_vars

\* A query of separators only has parsed into no condition and the search has
\* listed the one stored document that holds its text, in an index of three
\* documents or more none of which the parsed query ext=c is true of.
C23_Witness ==
    /\ call[1].kind = "search"
    /\ ParseQuery(call[1].id).status = "ok"
    /\ ParseQuery(call[1].id).Conditions = <<>>
    /\ Cardinality(Listed(ret[1].hits)) = 1
    /\ SimpleCount(index) >= 3
    /\ Dispatched(index.documents, QueryExtC) = {}
    /\ HoldingText(index.documents, QueryExtGo) = {}


\* ------------------------------------------------ well-formed query texts

\* A value with a matching pair of surrounding quotes taken off.
Unquoted(value) ==
    IF Len(value) >= 2 /\ value[1] = value[Len(value)] /\ value[1] \in {"\"", "'"}
    THEN SubSeq(value, 2, Len(value) - 1)
    ELSE value

\* The conditions a segment can be read as: word characters, blanks, an
\* operator, blanks, and the rest as the value.
Readings(seg) ==
    {QueryCondition(SubSeq(seg, 1, i), SubSeq(seg, j + 1, k),
                    Unquoted(TrimSpace(SubSeq(seg, m + 1, Len(seg))))) :
        <<i, j, k, m>> \in
            {q \in (1..Len(seg)) \X (1..Len(seg)) \X (1..Len(seg)) \X (1..Len(seg)) :
                /\ q[1] <= q[2] /\ q[2] < q[3] /\ q[3] <= q[4] /\ q[4] < Len(seg)
                /\ \A x \in 1..q[1] : seg[x] \in WordChars
                /\ \A x \in (q[1] + 1)..q[2] : seg[x] \in RegexSpace
                /\ \E o \in 1..Len(OperatorAlternation) :
                       SubSeq(seg, q[2] + 1, q[3]) = OperatorAlternation[o]
                /\ \A x \in (q[3] + 1)..q[4] : seg[x] \in RegexSpace
                /\ \A x \in (q[4] + 1)..Len(seg) : seg[x] # "\n"}}

\* A value that is quoted is closed by the quote that opens it.
Balanced(value) ==
    (value[1] \in {"\"", "'"} \/ value[Len(value)] \in {"\"", "'"})
    => (Len(value) >= 2 /\ value[1] = value[Len(value)])

\* The segment reads as a condition with a value, quoted or not.
WellFormedSegment(seg) ==
    \E i \in 1..Len(seg) :
        /\ Readings(seg) # {}
        /\ LET value == TrimSpace(SubSeq(seg, i, Len(seg)))
           IN  /\ value # <<>>
               /\ Balanced(value)
               /\ Unquoted(value) # <<>>
               /\ \E c \in Readings(seg) : c.Value = Unquoted(value)

\* The query is one well-formed condition or more, joined by " and ".
WellFormed(query) ==
    /\ Segments(query) # <<>>
    /\ \A i \in 1..Len(Segments(query)) : WellFormedSegment(Segments(query)[i])

\* The call of ParseQuery runs.
ParseStep == pc[1] = "parse" /\ (pc'[1] = "idle" \/ panicked')

\* C24: on a query of n >= 1 well-formed conditions joined by " and ",
\* ParseQuery returns, with no error, n conditions in the order of the text,
\* the i-th holding a dimension, an operator and a value (a matching pair of
\* surrounding quotes taken off) its i-th segment reads as; no Dimension is
\* empty and every Operator is one of =, !=, <, <=, >, >=, contains.
C24_ParseYieldsConditionsInOrder ==
    [][(ParseStep /\ WellFormed(call[1].id))
       => /\ ~panicked'
          /\ ret'[1].val = "nil"
          /\ Len(ret'[1].conds) = Len(Segments(call[1].id))
          /\ \A i \in 1..Len(ret'[1].conds) :
                 /\ ret'[1].conds[i] \in Readings(Segments(call[1].id)[i])
                 /\ ret'[1].conds[i].Dimension # <<>>
                 /\ \E o \in 1..Len(OperatorAlternation) :
                        ret'[1].conds[i].Operator = OperatorAlternation[o]]_vars

\* ParseQuery has returned two conditions for a text of two segments, the
\* first with its quotes taken off, the second another condition.
C24_Witness ==
    /\ Parsed
    /\ WellFormed(call[1].id)
    /\ Len(ret[1].conds) = 2
    /\ ret[1].conds[1] = QueryCondition(KeyExt, OpContains, <<"g", "o">>)
    /\ ret[1].conds[2] = QueryCondition(KeyT, OpEquals, <<"a">>)
    /\ Contains(call[1].id, <<"\"", "g", "o", "\"">>)


\* ------------------------------------- evaluation of a query on a document

KeyPath == <<"p", "a", "t", "h">>
KeyText == <<"t", "e", "x", "t">>
KeyFilename == <<"f", "i", "l", "e", "n", "a", "m", "e">>
KeyZ == <<"z">>

\* Document 3: a numeric attribute, an empty ext attribute.
DocT2 ==
    Document(<<"3">>, <<"G", "o">>, <<"c">>, <<>>,
             MapPut(MapPut(EmptyMap, KeyT, <<"2">>), KeyExt, <<>>))
\* Document 4: a numeric attribute, a Meta key named path, no Text.
DocT100 ==
    Document(<<"4">>, <<>>, <<"d">>, <<>>,
             MapPut(MapPut(EmptyMap, KeyT, <<"1", "0", "0">>), KeyPath, <<"b">>))
\* Document 5: a word attribute, an empty Meta key named text, numerals in
\* Text and Source.
DocTb ==
    Document(<<"5">>, <<"1", "0">>, <<"2">>, <<>>,
             MapPut(MapPut(EmptyMap, KeyT, <<"b">>), KeyText, <<>>))

\* The documents of the index the conditions are evaluated on.
EvalDocs == <<D1, D2b, D0, DocT2, DocT100, DocTb>>

QueryExtNotMd == KeyExt \o OpNotEquals \o <<"m", "d">>

\* An operator no constant of the package names.
OpUnknown == <<"~">>

\* The conditions evaluated one at a time.
EvalConditions ==
    {QueryCondition(d, o, v) :
        d \in {KeyExt, KeyT, KeyPath, KeyText, KeyFilename, KeyZ},
        o \in {OpEquals, OpNotEquals, OpLess, OpLessEq, OpGreater, OpGreaterEq,
               OpContains, OpUnknown},
        v \in {<<>>, <<"g", "o">>, <<"G", "O">>, <<"m", "d">>, <<"2">>, <<"1", "0">>, <<"b">>}}

\* The conditions put together in queries of two and three.
EvalParts ==
    {QueryCondition(KeyExt, OpEquals, <<"g", "o">>),
     QueryCondition(KeyT, OpNotEquals, <<"b">>),
     QueryCondition(KeyT, OpLess, <<"g", "o">>),
     QueryCondition(KeyT, OpGreaterEq, <<"1", "0">>),
     QueryCondition(KeyZ, OpUnknown, <<>>)}

EvalQueries ==
    {<<c>> : c \in EvalConditions}
        \cup {<<c1, c2>> : c1 \in EvalParts, c2 \in EvalParts}
        \cup {<<c1, c2, c3>> : c1 \in EvalParts, c2 \in EvalParts, c3 \in EvalParts}

\* q.Evaluate(doc), doc being the document stored under id.
EvaluateOp(conds, id) ==
    [kind |-> "evaluate", id |-> id, ids |-> <<>>, docs |-> <<>>, cfg |-> EmptyMap,
     seq |-> 0, conds |-> conds]

\* An index holding the six documents, and a caller about to evaluate a
\* query on one of them or to search the index.
EvalInit ==
    /\ index = SimpleAddDocuments(NewSimpleIndex, EvalDocs)
    /\ \E op \in {EvaluateOp(conds, EvalDocs[i].ID) : conds \in EvalQueries, i \in 1..Len(EvalDocs)}
                 \cup {SearchOp(QueryExtNotMd)} :
           /\ call = [t \in Threads |-> IF t = 1 THEN op ELSE NoOperation]
           /\ pc = [t \in Threads |-> IF t = 1 THEN op.kind ELSE "idle"]
    /\ workload = [callers |-> {1}, calls |-> {}]
    /\ store = EmptyStore
    /\ dbOpen = FALSE
    /\ opChan = <<>>
    /\ done = FALSE
    /\ worker = [pc |-> "exited", op |-> NoOperation]
    /\ ret = [t \in Threads |-> NothingReturned]
    /\ panicked = FALSE
    /\ opened = [err |-> "nil", loadErr |-> "nil", cfgErr |-> "nil",
                 empty |-> TRUE, calls |-> 0]
    /\ ncalls = 0
    /\ faults = 0
    /\ reopens = 0
    /\ enqLog = <<>>
    /\ durLog = <<>>

\* What Evaluate hands back: (bool, error).
EvaluateReturned(r) ==
    [val |-> IF r.err THEN "EvalError" ELSE "nil", partial |-> FALSE, dropped |-> FALSE,
     match |-> r.match]

\* Query.Evaluate(doc)
EvalCall ==
    /\ pc[1] = "evaluate"
    /\ ret' = [ret EXCEPT ![1] =
                  EvaluateReturned(EvaluateQuery(call[1].conds, index.documents[call[1].id]))]
    /\ pc' = [pc EXCEPT ![1] = "idle"]
    /\ UNCHANGED <<index, store, dbOpen, opChan, done, worker, call, panicked,
                   opened, ncalls, faults, reopens, enqLog, durLog, workload>>

\* SimpleIndex.Search(query)
EvalSearch ==
    /\ pc[1] = "search"
    /\ ret' = [ret EXCEPT ![1] = SearchReturned(SimpleSearch(index, call[1].id).hits)]
    /\ pc' = [pc EXCEPT ![1] = "idle"]
    /\ UNCHANGED <<index, store, dbOpen, opChan, done, worker, call, panicked,
                   opened, ncalls, faults, reopens, enqLog, durLog, workload>>

EvalNext == EvalCall \/ EvalSearch

EvalSpec == EvalInit /\ [][EvalNext]_vars

\* Evaluate has returned to the caller.
Evaluated == pc[1] = "idle" /\ call[1].kind = "evaluate"

\* The value a dimension names in a document (the empty string when it names
\* none): the Meta entry of that key, else Source for path, Text for text.
FieldOf(doc, dim) ==
    IF dim \in DOMAIN doc.Meta THEN doc.Meta[dim]
    ELSE IF dim = KeyPath THEN doc.Source
    ELSE IF dim = KeyText THEN doc.Text
    ELSE <<>>

\* C25: a condition is evaluated on Meta[Dimension] when the document has that
\* key, else on Source for path and Text for text (filename is Meta's
\* filename); when the field is missing or empty the condition is false, with
\* no error, whatever the operator, != included; on a field that is not
\* empty, =, != and contains compare it with the value, letter case ignored.
\* Search("ext!=md") lists the documents whose ext is neither empty nor md,
\* document 1 among them, and none that lacks ext.
C25_MissingFieldIsFalse ==
    /\ (Evaluated /\ Len(call[1].conds) = 1)
       => LET c == call[1].conds[1]
              v == FieldOf(index.documents[call[1].id], c.Dimension)
          IN  /\ v = <<>> => (ret[1].val = "nil" /\ ~ret[1].match)
              /\ (v # <<>> /\ c.Operator = OpEquals)
                 => (ret[1].val = "nil" /\ ret[1].match = EqualFold(v, c.Value))
              /\ (v # <<>> /\ c.Operator = OpNotEquals)
                 => (ret[1].val = "nil" /\ ret[1].match = ~EqualFold(v, c.Value))
              /\ (v # <<>> /\ c.Operator = OpContains)
                 => (ret[1].val = "nil"
                     /\ ret[1].match = Contains(ToLower(v), ToLower(c.Value)))
    /\ (pc[1] = "idle" /\ call[1].kind = "search")
       => /\ ret[1].val = "nil"
          /\ Listed(ret[1].hits)
                = {k \in DOMAIN index.documents :
                      /\ KeyExt \in DOMAIN index.documents[k].Meta
                      /\ index.documents[k].Meta[KeyExt] \notin {<<>>, <<"m", "d">>}}
          /\ <<"1">> \in Listed(ret[1].hits)
          /\ <<"2">> \notin Listed(ret[1].hits)

\* A != condition has been evaluated to false, with no error, on a document
\* that lacks the dimension.
C25_Witness ==
    /\ Evaluated
    /\ Len(call[1].conds) = 1
    /\ call[1].conds[1].Operator = OpNotEquals
    /\ call[1].conds[1].Dimension \notin DOMAIN index.documents[call[1].id].Meta
    /\ call[1].conds[1].Value # <<>>
    /\ ret[1].val = "nil"
    /\ ~ret[1].match

\* The truth of "left op right" for an ordering operator, given which of the
\* two is less than the other.
Ordered(op, less, greater) ==
    CASE op = OpLess -> less
      [] op = OpLessEq -> ~greater
      [] op = OpGreater -> greater
      [] op = OpGreaterEq -> ~less

\* C26: for <, <=, > and >= on a field that is not empty: when the field and
\* the query literal are both numerals the numbers are compared; when the
\* field is no numeral the two strings are compared byte by byte, with no
\* error, the literal being a numeral or not; when the field is a numeral and
\* the literal is not, the evaluation returns an error.
C26_OrderingIsNumericOrBytewise ==
    (/\ Evaluated
     /\ Len(call[1].conds) = 1
     /\ call[1].conds[1].Operator \in {OpLess, OpLessEq, OpGreater, OpGreaterEq}
     /\ FieldOf(index.documents[call[1].id], call[1].conds[1].Dimension) # <<>>)
    => LET c == call[1].conds[1]
           v == FieldOf(index.documents[call[1].id], c.Dimension)
           vn == ParseFloat(v)
           qn == ParseFloat(c.Value)
       IN  /\ (vn.ok /\ qn.ok)
              => /\ ret[1].val = "nil"
                 /\ ret[1].match = Ordered(c.Operator, vn.num < qn.num, vn.num > qn.num)
           /\ ~vn.ok
              => /\ ret[1].val = "nil"
                 /\ ret[1].match
                       = Ordered(c.Operator, StrLess(v, c.Value), StrLess(c.Value, v))
           /\ (vn.ok /\ ~qn.ok) => ret[1].val = "EvalError"

\* The field 2 has been found less than the literal 10, which it is as a
\* number and is not as a string.
C26_Witness ==
    /\ Evaluated
    /\ call[1].conds = <<QueryCondition(KeyT, OpLess, <<"1", "0">>)>>
    /\ FieldOf(index.documents[call[1].id], KeyT) = <<"2">>
    /\ ~StrLess(<<"2">>, <<"1", "0">>)
    /\ ret[1].val = "nil"
    /\ ret[1].match

\* The position of the first condition that is false of the document or
\* raises an error on it (0 when every condition is true of it).
FirstStop(conds, doc) ==
    LET stops == {i \in 1..Len(conds) :
                     \/ EvaluateCondition(conds[i], doc).err
                     \/ ~EvaluateCondition(conds[i], doc).match}
    IN  IF stops = {} THEN 0 ELSE CHOOSE i \in stops : \A j \in stops : i <= j

\* C27: a query matches a document exactly when every condition matches it.
\* The conditions are gone through in order: the first one that is false
\* makes the result false, with no error, whatever the later ones would do;
\* an error met before any false condition is returned as the error.
C27_QueryIsShortCircuitAnd ==
    Evaluated
    => LET doc == index.documents[call[1].id]
           f == FirstStop(call[1].conds, doc)
       IN  IF f = 0 THEN ret[1].val = "nil" /\ ret[1].match
           ELSE IF EvaluateCondition(call[1].conds[f], doc).err
           THEN ret[1].val = "EvalError"
           ELSE ret[1].val = "nil" /\ ~ret[1].match

\* A query has been found false, with no error, on a document of which its
\* first condition is false and on which its second one raises an error.
C27_Witness ==
    /\ Evaluated
    /\ Len(call[1].conds) = 2
    /\ ~EvaluateCondition(call[1].conds[1], index.documents[call[1].id]).err
    /\ ~EvaluateCondition(call[1].conds[1], index.documents[call[1].id]).match
    /\ EvaluateCondition(call[1].conds[2], index.documents[call[1].id]).err
    /\ ret[1].val = "nil"
    /\ ~ret[1].match


\* --------------------------------- the worker under a fair scheduler, no Close

\* The durable path alone: callers add documents, the worker drains the queue.
DurableNext ==
    \/ \E t \in Threads, doc \in {D1, D2, D3, D0} : AddDocument(t, doc)
    \/ \E t \in Threads : Enqueue(t)
    \/ WorkerReceive
    \/ WorkerProcess

\* The index in service with the worker goroutine scheduled fairly: the loop
\* of startAsyncWorker takes a queued job when one waits and finishes the
\* transaction it has begun. Nobody calls Close.
FairServingSpec ==
    /\ ServingInit
    /\ [][DurableNext]_vars
    /\ WF_vars(WorkerReceive)
    /\ WF_vars(WorkerProcess)

\* The worker has processed the job of the call of rank s: its transaction
\* was applied, or it failed and the job was discarded.
Processed(s) == \E i \in 1..Len(durLog) : durLog[i].op.seq = s

\* The queue accepted the job of the call of rank s.
Accepted(s) == \E i \in 1..Len(enqLog) : enqLog[i] = s

\* C28: with no Close and a fairly scheduled worker, every job the queue
\* accepted is eventually taken from it and processed, and from some point on
\* (the callers issue finitely many mutations) the queue stays empty and the
\* worker waits in its select.
C28_AcceptedJobsAreProcessed ==
    /\ \A s \in 1..MaxCalls : Accepted(s) ~> Processed(s)
    /\ <>[](opChan = <<>> /\ worker.pc = "select")

\* The queue was full, a transaction failed, and the worker has processed
\* every accepted job all the same.
C28_Witness ==
    /\ Len(enqLog) > QueueCap
    /\ \A i \in 1..Len(enqLog) : Processed(enqLog[i])
    /\ \E i \in 1..Len(durLog) : ~durLog[i].ok
    /\ opChan = <<>>
    /\ worker.pc = "select"


\* ------------------------------------ callers that run, a worker that may not

\* The index in service with every caller scheduled fairly and nothing
\* asked of the worker: it may stop for good at any point, between two jobs
\* or inside a transaction.
FairCallersSpec ==
    /\ ServingInit
    /\ [][ServingNext]_vars
    /\ \A t \in Threads : WF_vars(Enqueue(t))

\* C29: a caller is never made to wait for the durable path. A mutating call
\* that has done its in-memory step goes on to return nil, whether the queue
\* is full or not and whether the worker ever takes another step or not; a
\* Search returns in the step that calls it, and neither reads nor changes
\* the queue, the worker or the store.
C29_CallersNeverWaitForWorker ==
    /\ \A t \in Threads : (pc[t] = "enqueue") ~> (pc[t] = "idle" /\ ret[t].val = "nil")
    /\ [][\A t \in Threads :
            SearchStep(t)
            => /\ pc'[t] = "idle"
               /\ ret'[t].val = "nil"
               /\ <<opChan, worker, store>>' = <<opChan, worker, store>>]_vars

\* A mutating call has returned with the queue full and its job dropped,
\* the worker having never taken a step.
C29_Witness ==
    /\ \E t \in Threads :
          /\ pc[t] = "idle"
          /\ call[t].kind = "add_document"
          /\ ret[t].val = "nil"
          /\ ret[t].dropped
    /\ Len(opChan) = QueueCap
    /\ worker.pc = "select"
    /\ durLog = <<>>
    /\ store = EmptyStore


\* ------------------------------------- reads of the store on behalf of callers

\* The read-only methods a caller can invoke on an open index.
ViewKinds == {"is_database_empty", "get_database_stats"}

\* GetDatabaseStats: the number of stored documents and whether a
\* configuration is stored.
GetDatabaseStats(st) ==
    [document_count |-> Cardinality(DOMAIN st.documents),
     has_config |-> ConfigKey \in DOMAIN st.config]

\* The call a caller is in while its read transaction is open: the
\* transaction reads the store as it was when it began.
ViewOp(kind, st) == [kind |-> kind, seq |-> 0, snap |-> st]

\* What a read hands back.
ViewReturned(op) ==
    [val |-> "nil", partial |-> FALSE, dropped |-> FALSE,
     empty |-> IsDatabaseEmpty(op.snap), stats |-> GetDatabaseStats(op.snap)]

\* IsDatabaseEmpty / GetDatabaseStats, up to the start of db.View: the read
\* lock is taken to copy p.db and released before the transaction begins.
ViewBegin(t, kind) ==
    /\ ~panicked
    /\ pc[t] = "idle"
    /\ t \in workload.callers
    /\ IF dbOpen
       THEN /\ pc' = [pc EXCEPT ![t] = "view"]
            /\ call' = [call EXCEPT ![t] = ViewOp(kind, store)]
            /\ ret' = [ret EXCEPT ![t] = NothingReturned]
       ELSE /\ pc' = pc
            /\ call' = [call EXCEPT ![t] = ViewOp(kind, EmptyStore)]
            /\ ret' = [ret EXCEPT ![t] = Returned("database not open", FALSE, FALSE)]
    /\ UNCHANGED <<index, store, dbOpen, opChan, done, worker, panicked, opened,
                   ncalls, faults, reopens, enqLog, durLog, workload>>

\* The read transaction ends and the method returns.
ViewEnd(t) ==
    /\ ~panicked
    /\ pc[t] = "view"
    /\ pc' = [pc EXCEPT ![t] = "idle"]
    /\ ret' = [ret EXCEPT ![t] = ViewReturned(call[t])]
    /\ UNCHANGED <<index, store, dbOpen, opChan, done, worker, call, panicked, opened,
                   ncalls, faults, reopens, enqLog, durLog, workload>>

\* The worker is inside db.Update for the op it holds.
InTransaction == worker.pc = "process" /\ "tx" \in DOMAIN worker

\* Caller t is inside db.View.
Viewing(t) == pc[t] = "view"

\* processDBOperation, up to the start of db.Update: the read lock is taken
\* to copy p.db and released before the transaction begins.
WorkerBeginUpdate ==
    /\ ~panicked
    /\ worker.pc = "process"
    /\ ~InTransaction
    /\ dbOpen
    /\ worker' = [pc |-> "process", op |-> worker.op, tx |-> TRUE]
    /\ UNCHANGED <<index, store, dbOpen, opChan, done, pc, call, ret, panicked, opened,
                   ncalls, faults, reopens, enqLog, durLog, workload>>

ViewNext ==
    \/ \E t \in Threads, doc \in {D1, D2, D3, D0} : AddDocument(t, doc)
    \/ \E t \in Threads : Enqueue(t)
    \/ WorkerReceive
    \/ WorkerBeginUpdate
    \/ WorkerProcess
    \/ \E t \in Threads, kind \in ViewKinds : ViewBegin(t, kind)
    \/ \E t \in Threads : ViewEnd(t)

\* An open index with its worker started, one caller adding documents and
\* reading the store.
ViewSpec == ServingInit /\ [][ViewNext]_vars

\* C30: once the worker has been started, only the worker writes to the
\* key-value store (every change of the store is the worker's transaction
\* for the op it holds), and no read of the store made for a caller is ever
\* open while a worker transaction is.
C30_ReadsNeverOverlapWorkerTransaction ==
    [][/\ store' # store => (worker.pc = "process" /\ worker'.pc = "select")
       /\ \A t \in Threads : ~(Viewing(t) /\ InTransaction)']_vars

\* Only the worker writes to the store, the first half of C30 alone.
OnlyWorkerWritesStore ==
    [][store' # store => (worker.pc = "process" /\ worker'.pc = "select")]_vars

\* ------------------------------------------------------------------- Flush

FlushOp == Operation("flush", <<>>, <<>>, <<>>, EmptyMap)

\* A Flush that first applies the queued jobs itself.
FlushDraining(t) ==
    /\ ~panicked
    /\ pc[t] = "idle"
    /\ t \in workload.callers
    /\ opChan' = <<>>
    /\ call' = [call EXCEPT ![t] = FlushOp]
    /\ ret' = [ret EXCEPT ![t] = Returned("nil", FALSE, FALSE)]
    /\ UNCHANGED <<index, store, dbOpen, done, worker, pc, panicked, opened,
                   ncalls, faults, reopens, enqLog, durLog, workload>>

\* PersistedSimpleIndex.Flush: p.db.Sync() when p.db is set, and the error of
\* the sync if it fails; SimpleIndex.Flush, which returns nil, otherwise.
Flush(t) ==
    /\ ~panicked
    /\ pc[t] = "idle"
    /\ t \in workload.callers
    /\ \E syncFails \in BOOLEAN :
          /\ syncFails => (dbOpen /\ faults < MaxFaults)
          /\ faults' = IF syncFails THEN faults + 1 ELSE faults
          /\ ret' = [ret EXCEPT ![t] =
                        Returned(IF syncFails THEN "sync" ELSE "nil", FALSE, FALSE)]
    /\ call' = [call EXCEPT ![t] = FlushOp]
    /\ UNCHANGED <<index, store, dbOpen, opChan, done, worker, pc, panicked, opened,
                   ncalls, reopens, enqLog, durLog, workload>>

FlushNext ==
    \/ \E t \in Threads, doc \in {D1, D2, D3, D0} : AddDocument(t, doc)
    \/ \E t \in Threads : Enqueue(t)
    \/ WorkerReceive
    \/ WorkerShutdown
    \/ WorkerProcess
    \/ \E t \in Threads : Flush(t)
    \/ \E t \in Threads : CloseSignal(t)
    \/ \E t \in Threads : CloseWait(t)
    \/ \E t \in Threads : CloseDatabase(t)

\* One caller adding documents, flushing and closing.
FlushSpec == ServingInit /\ [][FlushNext]_vars

\* A step in which caller t receives the result of a Flush.
FlushStep(t) ==
    call'[t].kind = "flush" /\ <<call'[t], ret'[t]>> # <<call[t], ret[t]>>

FlushedClosed ==
    \E t \in Threads : call[t].kind = "flush" /\ ret[t].val = "nil" /\ ~dbOpen /\ ~panicked

\* ------------------------------- OpenDatabase and Close on one instance

OpenDatabaseOp == Operation("open_database", <<>>, <<>>, <<>>, EmptyMap)

\* NewPersistedSimpleIndex(): no database, no worker started, p.done open.
LifecycleInit ==
    /\ workload = [callers |-> {1}, calls |-> {AddDocumentOp(D1), AddDocumentOp(D2)}]
    /\ index = NewSimpleIndex
    /\ store = EmptyStore
    /\ dbOpen = FALSE
    /\ opChan = <<>>
    /\ done = FALSE
    /\ worker = [pc |-> "exited", op |-> NoOperation]
    /\ pc = [t \in Threads |-> "idle"]
    /\ call = [t \in Threads |-> NoOperation]
    /\ ret = [t \in Threads |-> NothingReturned]
    /\ panicked = FALSE
    /\ opened = [err |-> "nil", loadErr |-> "nil", cfgErr |-> "nil",
                 empty |-> TRUE, calls |-> 0]
    /\ ncalls = 0
    /\ faults = 0
    /\ reopens = 0
    /\ enqLog = <<>>
    /\ durLog = <<>>

\* An OpenDatabase without the check of p.db.
OpenOutcomeUnchecked(isOpen, w, openFails) ==
    IF openFails
    THEN [dbOpen |-> isOpen, worker |-> w, err |-> "failed to open database"]
    ELSE [dbOpen |-> TRUE, worker |-> [pc |-> "select", op |-> NoOperation], err |-> "nil"]

\* What OpenDatabase does to the instance: the handle, the worker, the error.
OpenOutcome(isOpen, w, openFails) ==
    IF isOpen
    THEN [dbOpen |-> isOpen, worker |-> w, err |-> "database already open"]
    ELSE IF openFails
    THEN [dbOpen |-> FALSE, worker |-> w, err |-> "failed to open database"]
    ELSE [dbOpen |-> TRUE, worker |-> [pc |-> "select", op |-> NoOperation], err |-> "nil"]

\* PersistedSimpleIndex.OpenDatabase(dbPath) called by caller t: refused when
\* p.db is set; otherwise bbolt.Open, the two buckets created if absent,
\* p.db = db and startAsyncWorker.
OpenDatabase(t) ==
    /\ ~panicked
    /\ pc[t] = "idle"
    /\ t \in workload.callers
    /\ \E openFails \in BOOLEAN :
          /\ openFails => (~dbOpen /\ faults < MaxFaults)
          /\ faults' = IF openFails THEN faults + 1 ELSE faults
          /\ LET r == OpenOutcome(dbOpen, worker, openFails)
             IN  /\ dbOpen' = r.dbOpen
                 /\ worker' = r.worker
                 /\ ret' = [ret EXCEPT ![t] = Returned(r.err, FALSE, FALSE)]
    /\ call' = [call EXCEPT ![t] = OpenDatabaseOp]
    /\ UNCHANGED <<index, store, opChan, done, pc, panicked, opened, ncalls,
                   reopens, enqLog, durLog, workload>>

LifecycleNext ==
    \/ \E t \in Threads, doc \in {D1, D2} : AddDocument(t, doc)
    \/ \E t \in Threads : Enqueue(t)
    \/ WorkerReceive
    \/ WorkerShutdown
    \/ WorkerProcess
    \/ \E t \in Threads : OpenDatabase(t)
    \/ \E t \in Threads : CloseSignal(t)
    \/ \E t \in Threads : CloseWait(t)
    \/ \E t \in Threads : CloseDatabase(t)

\* One caller opening, using and closing one instance, in any order.
LifecycleSpec == LifecycleInit /\ [][LifecycleNext]_vars

\* A step in which caller t receives the result of an OpenDatabase.
OpenStep(t) ==
    call'[t].kind = "open_database" /\ <<call'[t], ret'[t]>> # <<call[t], ret[t]>>

\* C32: at most one worker runs at any time. A worker is started by
\* OpenDatabase alone, and only when no worker is running; a worker runs only
\* while the handle is set or a Close is waiting for it. OpenDatabase on an
\* instance whose store is open returns an error and changes neither the
\* worker, nor the handle, nor the queue, nor the store.
C32_AtMostOneWorker ==
    [][/\ (worker.pc # "exited" /\ worker'.pc = "select" /\ worker' # worker)
          => worker.pc = "process"
       /\ (worker.pc = "exited" /\ worker'.pc # "exited")
          => \E t \in Threads : OpenStep(t) /\ ~dbOpen /\ dbOpen' /\ ret'[t].val = "nil"
       /\ \A t \in Threads :
             OpenStep(t)
             => IF dbOpen
                THEN /\ ret'[t].val = "database already open"
                     /\ <<worker, dbOpen, opChan, store, index>>'
                          = <<worker, dbOpen, opChan, store, index>>
                ELSE /\ worker.pc = "exited"
                     /\ ret'[t].val = "nil" <=> (dbOpen' /\ worker'.pc = "select")]_vars

\* OpenDatabase was refused on an instance that had been closed and opened
\* again, while its worker was in the middle of a job.
C32_Witness ==
    /\ \E t \in Threads :
          /\ pc[t] = "idle"
          /\ call[t].kind = "open_database"
          /\ ret[t].val = "database already open"
    /\ done
    /\ dbOpen
    /\ worker.pc = "process"

\* ------------------------------------------ opening a path, with load

\* A path with no file: a store with no bucket.
NoFile == [b \in {} |-> EmptyMap]

\* What a committed transaction for op leaves in the store.
After(st, op) == dbUpdate(st, op, FALSE).store

\* The files an open can find at the path: none, one without buckets made
\* by this program yet, and what earlier runs of the program have left.
StorePool ==
    {NoFile,
     [documents |-> EmptyMap],
     EmptyStore,
     After(EmptyStore, ConfigureOp(CfgA)),
     After(EmptyStore, AddDocumentOp(D1)),
     After(After(EmptyStore, ConfigureOp(CfgA)), AddDocumentsOp(<<D1, D2>>))}

\* No instance yet; the path holds one of the files of StorePool.
OpenInit ==
    /\ workload = [callers |-> {1},
                   calls |-> {AddDocumentOp(D1), AddDocumentOp(D2), DeleteDocumentOp(<<"1">>)}]
    /\ index = NewSimpleIndex
    /\ store \in StorePool
    /\ dbOpen = FALSE
    /\ opChan = <<>>
    /\ done = FALSE
    /\ worker = [pc |-> "exited", op |-> NoOperation]
    /\ pc = [t \in Threads |-> "idle"]
    /\ call = [t \in Threads |-> NoOperation]
    /\ ret = [t \in Threads |-> NothingReturned]
    /\ panicked = FALSE
    /\ opened = [err |-> "nil", loadErr |-> "nil", cfgErr |-> "nil",
                 empty |-> TRUE, calls |-> 0]
    /\ ncalls = 0
    /\ faults = 0
    /\ reopens = 0
    /\ enqLog = <<>>
    /\ durLog = <<>>

\* OpenDatabase: bbolt.Open creates the file when there is none, and the
\* transaction that follows creates each bucket that does not exist.
CreateBuckets(st) ==
    [b \in {"documents", "config"} |-> IF b \in DOMAIN st THEN st[b] ELSE EmptyMap]

\* A constructor that refuses a store with no document.
OpenWithLoadRefusingEmpty(st, fault) ==
    LET s == CreateBuckets(st)
        r == LoadAllFromDatabase(NewSimpleIndex, s, fault)
    IN  [store |-> s, index |-> r.index,
         err |-> IF IsDatabaseEmpty(s) THEN "empty database" ELSE "nil",
         loadErr |-> r.err, cfgErr |-> r.cfgErr, empty |-> IsDatabaseEmpty(s)]

\* NewPersistedSimpleIndexWithDatabaseAndLoad(dbPath) from the file at the
\* path: the store after OpenDatabase and what the constructor returns. When
\* IsDatabaseEmpty fails the constructor goes on to load.
OpenWithLoadResult(st, fault) ==
    LET s == CreateBuckets(st)
        r == LoadAllFromDatabase(NewSimpleIndex, s, "none")
    IN  IF fault = "empty_check"
        THEN [store |-> s, index |-> r.index, err |-> "nil",
              loadErr |-> r.err, cfgErr |-> r.cfgErr, empty |-> FALSE]
        ELSE [store |-> s] @@ NewPersistedSimpleIndexWithDatabaseAndLoad(s, fault)

\* The process creates an instance on the path, no other instance being open.
OpenWithLoad ==
    /\ ~panicked
    /\ reopens <= MaxReopens
    /\ ~dbOpen
    /\ worker.pc = "exited"
    /\ \A t \in Threads : pc[t] = "idle"
    /\ \E fault \in {"none", "empty_check", "config", "documents"} :
          /\ fault # "none" => faults < MaxFaults
          /\ faults' = IF fault # "none" THEN faults + 1 ELSE faults
          /\ LET r == OpenWithLoadResult(store, fault)
             IN  /\ store' = r.store
                 /\ index' = r.index
                 /\ opened' = [err |-> r.err, loadErr |-> r.loadErr, cfgErr |-> r.cfgErr,
                               empty |-> r.empty, calls |-> ncalls]
                 /\ dbOpen' = (r.err = "nil")
                 /\ worker' = [pc |-> IF r.err = "nil" THEN "select" ELSE "exited",
                               op |-> NoOperation]
    /\ reopens' = reopens + 1
    /\ opChan' = <<>>
    /\ done' = FALSE
    /\ call' = [t \in Threads |-> NoOperation]
    /\ ret' = [t \in Threads |-> NothingReturned]
    /\ enqLog' = <<>>
    /\ durLog' = <<>>
    /\ UNCHANGED <<pc, panicked, ncalls, workload>>

\* A caller uses the instance only once the constructor has returned it.
Constructed(A) == reopens >= 1 /\ A

OpenNext ==
    \/ OpenWithLoad
    \/ \E t \in Threads, doc \in {D1, D2} : Constructed(AddDocument(t, doc))
    \/ \E t \in Threads : Constructed(DeleteDocument(t, <<"1">>))
    \/ \E t \in Threads : Enqueue(t)
    \/ WorkerReceive
    \/ WorkerShutdown
    \/ WorkerProcess
    \/ \E t \in Threads : Constructed(CloseSignal(t))
    \/ \E t \in Threads : CloseWait(t)
    \/ \E t \in Threads : CloseDatabase(t)

OpenSpec == OpenInit /\ [][OpenNext]_vars

\* The documents bucket of the file is missing or holds nothing.
NoStoredDocument(st) == "documents" \notin DOMAIN st \/ st.documents = EmptyMap

\* C33: an open with load leaves the file with both buckets, every bucket it
\* had holding what it held and every bucket it lacked empty; when the
\* documents bucket was absent or empty the constructor returns no error, an
\* index with Count() = 0 and an open handle with its worker running.
C33_OpenEmptyStore ==
    [][reopens' = reopens + 1
       => /\ DOMAIN store' = {"documents", "config"}
          /\ \A b \in DOMAIN store : store'[b] = store[b]
          /\ \A b \in DOMAIN store' \ DOMAIN store : store'[b] = EmptyMap
          /\ NoStoredDocument(store)
             => /\ opened'.err = "nil"
                /\ SimpleCount(index') = 0
                /\ dbOpen'
                /\ worker'.pc = "select"
                /\ ~done'
                /\ opChan' = <<>>]_vars

\* After calls on a first instance and its Close, the path, whose store
\* holds no document, has been opened again: an empty index, an open handle,
\* the worker waiting.
C33_Witness ==
    /\ reopens = 2
    /\ opened.calls = ncalls
    /\ ncalls >= 2
    /\ NoStoredDocument(store)
    /\ opened.err = "nil"
    /\ SimpleCount(index) = 0
    /\ dbOpen
    /\ worker.pc = "select"
    /\ ~panicked

\* ------------------------------------------- Close and the jobs in the queue

\* C34: Close loses no accepted job. With one caller (every job was accepted
\* before Close was called) and no storage failure injected, when Close has
\* returned nil the worker has run the transaction of every job the queue
\* accepted.
C34_CloseLosesNoAcceptedJob ==
    \A t \in Threads :
        (/\ workload.callers = {t}
         /\ faults = 0
         /\ ~panicked
         /\ call[t].kind = "close" /\ pc[t] = "idle" /\ ret[t].val = "nil")
        => \A s \in 1..MaxCalls : Accepted(s) => Processed(s)

\* --------------------------------------------- the store against the memory

\* Caller t is the only caller of an instance opened on a fresh store; each
\* of its calls succeeded and had its job accepted, no storage failure was
\* injected, and the worker has run every job and waits for the next.
Drained(t) ==
    /\ workload.callers = {t}
    /\ reopens = 0
    /\ faults = 0
    /\ ~panicked
    /\ dbOpen
    /\ pc[t] = "idle"
    /\ opChan = <<>>
    /\ worker.pc = "select"
    /\ Len(enqLog) = ncalls
    /\ Len(durLog) = ncalls

\* The documents bucket holds exactly the keys of the map idx, each with a
\* value that decodes to the document the map holds.
BucketMirrors(st, idx) ==
    /\ DOMAIN st.documents = DOMAIN idx.documents
    /\ \A k \in DOMAIN idx.documents :
          UnmarshalDocument(st.documents[k]).doc = idx.documents[k]

\* C35: with a single caller, every call succeeding and no job dropped, once
\* the worker has drained the queue the documents bucket holds exactly the
\* keys of the in-memory map, each mapped to an equal document.
C35_DrainedStoreMirrorsMemory ==
    \A t \in Threads : Drained(t) => BucketMirrors(store, index)

\* ------------------------------------------------------------ reload fidelity

\* The step is the reopening with load of the path of a first instance that
\* one caller used and closed: every call succeeded and had its job accepted
\* and committed before Close, and no storage failure was injected.
ReloadsDrained ==
    /\ reopens = 0
    /\ reopens' = 1
    /\ Cardinality(workload.callers) = 1
    /\ faults' = 0
    /\ ncalls >= 1
    /\ Len(enqLog) = ncalls
    /\ Len(durLog) = ncalls
    /\ \A i \in 1..Len(durLog) : durLog[i].ok

\* C36: the map from ID to Document an open with load rebuilds is the map
\* the closed instance held: same keys, same document under each key.
C36_ReloadedMapIsMapAtClose ==
    [][ReloadsDrained => index'.documents = index.documents]_vars

\* The keys alone.
ReloadedKeysAreKeysAtClose ==
    [][ReloadsDrained => DOMAIN index'.documents = DOMAIN index.documents]_vars

\* ------------------------------------------------ deleted documents and reload

\* The keys a job writes in the documents bucket, which are the keys its
\* call wrote in the memory map.
PutKeys(op) ==
    CASE op.kind = "add_document" -> {op.docs[1].ID}
      [] op.kind \in {"add_documents", "update_documents"} ->
            {op.docs[i].ID : i \in 1..Len(op.docs)}
      [] op.kind = "update_document" -> {op.id}
      [] OTHER -> {}

\* Key k was in the memory map (the job of the call that put it there was
\* committed) and is not any more: a DeleteDocument or DeleteDocuments call
\* has removed it, nothing else removes a key.
RemovedFromMemory(k) ==
    /\ k \notin DOMAIN index.documents
    /\ \E i \in 1..Len(durLog) : durLog[i].ok /\ k \in PutKeys(durLog[i].op)

\* The step is the reopening with load of the path of a first instance whose
\* single caller called Close last; so few calls were made that the queue
\* was never full, every accepted job was run, no storage failure injected.
ReloadsUndropped ==
    /\ reopens = 0
    /\ reopens' = 1
    /\ faults' = 0
    /\ ncalls <= QueueCap
    /\ Len(durLog) = Len(enqLog)
    /\ \E t \in Threads :
          workload.callers = {t} /\ call[t].kind = "close" /\ ret[t].val = "nil"

\* C37: a document removed from memory by a delete call does not reappear
\* when the path is opened again with load.
C37_DeletedStaysDeleted ==
    [][ReloadsUndropped
       => \A k \in DOMAIN index'.documents : ~RemovedFromMemory(k)]_vars

\* ------------------------------------------- loading on an instance in service

LoadKinds == {"load_documents", "load_all"}

LoadOp(kind) == Operation(kind, <<>>, <<>>, <<>>, EmptyMap)

\* One caller configuring, adding a document, loading and closing.
LoadInit ==
    /\ workload = [callers |-> {1}, calls |-> {ConfigureOp(CfgA), AddDocumentOp(D1)}]
    /\ index = NewSimpleIndex
    /\ store = EmptyStore
    /\ dbOpen = TRUE
    /\ opChan = <<>>
    /\ done = FALSE
    /\ worker = [pc |-> "select", op |-> NoOperation]
    /\ pc = [t \in Threads |-> "idle"]
    /\ call = [t \in Threads |-> NoOperation]
    /\ ret = [t \in Threads |-> NothingReturned]
    /\ panicked = FALSE
    /\ opened = [err |-> "nil", loadErr |-> "nil", cfgErr |-> "nil",
                 empty |-> TRUE, calls |-> 0]
    /\ ncalls = 0
    /\ faults = 0
    /\ reopens = 0
    /\ enqLog = <<>>
    /\ durLog = <<>>

\* LoadDocumentsFromDatabase / LoadAllFromDatabase as a caller gets them:
\* with p.db nil both return an error before they touch p.index.
LoadResult(kind, idx, st, isOpen, fault) ==
    IF ~isOpen THEN [index |-> idx, err |-> "database not open"]
    ELSE IF kind = "load_documents"
    THEN LoadDocumentsFromDatabase(idx, st, fault = "documents")
    ELSE LET r == LoadAllFromDatabase(idx, st, fault)
         IN  [index |-> r.index, err |-> r.err]

\* Caller t calls one of the two methods.
LoadCall(t, kind) ==
    /\ ~panicked
    /\ pc[t] = "idle"
    /\ t \in workload.callers
    /\ \E fault \in {"none", "config", "documents"} :
          /\ fault # "none" => (dbOpen /\ faults < MaxFaults)
          /\ faults' = IF fault # "none" THEN faults + 1 ELSE faults
          /\ LET r == LoadResult(kind, index, store, dbOpen, fault)
             IN  /\ index' = r.index
                 /\ ret' = [ret EXCEPT ![t] = Returned(r.err, FALSE, FALSE)]
    /\ call' = [call EXCEPT ![t] = LoadOp(kind)]
    /\ UNCHANGED <<store, dbOpen, opChan, done, worker, pc, panicked, opened,
                   ncalls, reopens, enqLog, durLog, workload>>

LoadNext ==
    \/ \E t \in Threads : Configure(t, CfgA)
    \/ \E t \in Threads : AddDocument(t, D1)
    \/ \E t \in Threads : Enqueue(t)
    \/ WorkerReceive
    \/ WorkerShutdown
    \/ WorkerProcess
    \/ \E t \in Threads, kind \in LoadKinds : LoadCall(t, kind)
    \/ \E t \in Threads : CloseSignal(t)
    \/ \E t \in Threads : CloseWait(t)
    \/ \E t \in Threads : CloseDatabase(t)

LoadSpec == LoadInit /\ [][LoadNext]_vars

\* A step in which caller t receives the result of a load.
LoadStep(t) ==
    call'[t].kind \in LoadKinds /\ <<call'[t], ret'[t]>> # <<call[t], ret[t]>>

\* C38: a load that returns an error leaves the in-memory index with the
\* documents and the configuration it had before the call.
C38_FailedLoadKeepsIndex ==
    [][\A t \in Threads : (LoadStep(t) /\ ret'[t].val # "nil") => index' = index]_vars

\* With p.db nil the failed load does leave the index alone.
FailedLoadKeepsIndexWhenClosed ==
    [][\A t \in Threads :
          (LoadStep(t) /\ ret'[t].val # "nil" /\ ~dbOpen) => index' = index]_vars

\* ------------------------------------------------- the parser on any input

\* C39: for every query text ParseQuery ends by returning a Query or an
\* error: the step that runs it never ends the process with a run-time fault.
C39_ParseQueryNeverFaults ==
    [][pc[1] = "parse"
       => /\ ~panicked'
          /\ pc'[1] = "idle"
          /\ ret'[1].val \in {"nil", "FormatError"}]_vars

\* The same of Search, which calls ParseQuery on every non-empty query.
SearchNeverFaults == ~panicked

\* ------------------------------------- evaluation errors inside a Search

QueryTLessGo == KeyT \o OpLess \o <<"g", "o">>
QueryTGreaterEqB == KeyT \o OpGreaterEq \o <<"b">>
QueryTGreaterEq10 == KeyT \o OpGreaterEq \o <<"1", "0">>
QueryTNotB == KeyT \o OpNotEquals \o <<"b">>
QueryExtGoAndTLessGo == QueryExtGo \o QueryAnd \o QueryTLessGo
QueryTLessGoAndExtGo == QueryTLessGo \o QueryAnd \o QueryExtGo

\* The query texts passed to Search: ordered comparisons with a word and with
\* a number, alone and joined by and, a plain text, and a lone quote.
ErrorQueries ==
    {QueryTLessGo, QueryTGreaterEqB, QueryTGreaterEq10, QueryTNotB,
     QueryExtGoAndTLessGo, QueryTLessGoAndExtGo, QueryGo, QueryLoneQuote}

\* The document lists the index is filled from: numeric and word values of
\* the attribute t, and documents without it.
ErrorFills ==
    {<<>>, <<DocT2>>, <<DocTb>>, <<DocT2, DocTb>>, <<DocT2, DocT100>>,
     <<DocTb, DocT2, DocT100>>, <<D1, DocT100, DocTb>>, EvalDocs}

\* NewSimpleIndex() filled by AddDocuments, before the searches.
ErrorSearchInit ==
    /\ workload = [callers |-> {1}, calls |-> {}, queries |-> ErrorQueries]
    /\ index \in {SimpleAddDocuments(NewSimpleIndex, ds) : ds \in ErrorFills}
    /\ store = EmptyStore
    /\ dbOpen = FALSE
    /\ opChan = <<>>
    /\ done = FALSE
    /\ worker = [pc |-> "exited", op |-> NoOperation]
    /\ pc = [t \in Threads |-> "idle"]
    /\ call = [t \in Threads |-> NoOperation]
    /\ ret = [t \in Threads |-> NothingReturned]
    /\ panicked = FALSE
    /\ opened = [err |-> "nil", loadErr |-> "nil", cfgErr |-> "nil",
                 empty |-> TRUE, calls |-> 0]
    /\ ncalls = 0
    /\ faults = 0
    /\ reopens = 0
    /\ enqLog = <<>>
    /\ durLog = <<>>

ErrorSearchNext == \E query \in workload.queries : DispatchSearch(query)

ErrorSearchSpec == ErrorSearchInit /\ [][ErrorSearchNext]_vars

\* The stored documents whose evaluation against the conditions raises an
\* error.
Erring(docs, conds) == {k \in DOMAIN docs : EvaluateQuery(conds, docs[k]).err}

\* The stored documents the evaluation answers true for, without an error.
Matching(docs, conds) ==
    {k \in DOMAIN docs :
        ~EvaluateQuery(conds, docs[k]).err /\ EvaluateQuery(conds, docs[k]).match}

\* The conditions a query text parses into; none when it does not parse.
ParsedConditions(query) ==
    IF ParseQuery(query).status = "ok" THEN ParseQuery(query).Conditions ELSE <<>>

\* C40: a Search that returns does so with no error; when the query parses
\* into conditions, a stored document whose evaluation raises an error is
\* left out of the result, and every other stored document is still
\* evaluated: it is in the result exactly if the query is true of it.
C40_SearchSkipsEvaluationErrors ==
    [][Calls("search")
       => /\ ret'[1].val = "nil"
          /\ LET conds == ParsedConditions(call'[1].id)
             IN  conds # <<>>
                 => /\ Listed(ret'[1].hits) \cap Erring(index.documents, conds) = {}
                    /\ Listed(ret'[1].hits) = Matching(index.documents, conds)]_vars

\* A search by t<go has returned without an error from an index holding
\* two documents with a numeric t, whose evaluation raised an error and which
\* the result leaves out, and a document with a word for t, which it lists.
C40_Witness ==
    /\ ~panicked
    /\ call[1].kind = "search"
    /\ call[1].id = QueryTLessGo
    /\ ret[1].val = "nil"
    /\ Erring(index.documents, ParsedConditions(QueryTLessGo)) # {}
    /\ Listed(ret[1].hits) # {}
    /\ Listed(ret[1].hits) \cap Erring(index.documents, ParsedConditions(QueryTLessGo)) = {}
    /\ Cardinality(Erring(index.documents, ParsedConditions(QueryTLessGo))) >= 2

====
